---------------------------- MODULE Spec2Model ----------------------------
(***************************************************************************)
(* A model of rustic's snapshot archiver (src/archiver/archiver_impl.rs)   *)
(* and of the backup command that drives it (src/commands/backup.rs).      *)
(*                                                                         *)
(* Paths are sequences of components ("/" is the root component).  A blob  *)
(* id is the pair <<"h", bytes>>: the hash is injective (collision free)   *)
(* and is only ever compared for equality.  A serialized tree is the       *)
(* sequence of its nodes sorted by name.                                   *)
(***************************************************************************)
EXTENDS Integers, Sequences, FiniteSets, TLC

VARIABLES
    path,         \* Archiver.path
    tree,         \* Archiver.tree: the nodes added to the current directory
    parent,       \* Archiver.parent: the parent cursor
    stack,        \* Archiver.stack: frames (node, tree, parent)
    index,        \* Archiver.index: the index view, [data, tree]
    data_packer,  \* Archiver.data_packer: the ids added in this session
    tree_packer,  \* Archiver.tree_packer: the ids added in this session
    summary,      \* Archiver.summary
    snap,         \* Archiver.snap: [time, parent, tree, id]
    log,          \* history: the calls the archiver made, in order
    err,          \* the error the last operation returned ("" = Ok)
    phase,        \* position of the backup command
    run,          \* which backup run this is (1 = first, 2 = re-backup)
    stdin,        \* this run backs up stdin (backup.rs:149)
    rooted,       \* the backup path is absolute
    saved,        \* the snapshot manifests persisted by be.save_file
    nentries,     \* entries delivered so far (bounded by MaxEntries)
    stream,       \* history: the entries delivered in the first run
    replay,       \* the second run replays `stream` (idempotence scenario)
    pipe,         \* the hashing pipeline of one backup_reader call
    fault,        \* the calls that fail when next made (each fails once)
    force,        \* opts.force (backup.rs:176)
    rest          \* one operation of the REST backend (src/backend/rest.rs)

vars == <<path, tree, parent, stack, index, data_packer, tree_packer, summary,
          snap, log, err, phase, run, stdin, rooted, saved, nentries, stream, replay,
          pipe, fault, force, rest>>

\* The number of entries a source delivers over both runs.
MaxEntries == 3

----------------------------------------------------------------------------
(* Sequences *)

Last(s) == s[Len(s)]

Front(s) == SubSeq(s, 1, Len(s) - 1)

IsPrefix(p, q) == Len(p) <= Len(q) /\ SubSeq(q, 1, Len(p)) = p

----------------------------------------------------------------------------
(* Paths: std::path::Path as its sequence of components *)

RootDir == "/"

IsNormal(c) == c \notin {RootDir, ".", ".."}

\* Path::starts_with: component-wise prefix.
starts_with(p, base) == IsPrefix(base, p)

\* PathBuf::pop: drops the last component; false (no change) on "" and "/".
path_pop(p) == IF p = <<>> \/ p = <<RootDir>> THEN p ELSE Front(p)

\* Path::parent: None (<<>>) on "" and "/", else Some(path without last).
path_parent(p) == IF p = <<>> \/ p = <<RootDir>> THEN <<>> ELSE <<Front(p)>>

\* PathBuf::push of one component: an absolute component replaces the path.
path_push(p, c) == IF c = RootDir THEN <<RootDir>> ELSE Append(p, c)

----------------------------------------------------------------------------
(* Ids, nodes, trees *)

\* crypto::hash: a collision-free digest of the bytes.
hash(bytes) == <<"h", bytes>>

NoId == <<>>

DefaultMeta == [mtime |-> 0, size |-> 0]

\* Node::new_node(name, type, meta): no content, no subtree.
new_node(name, type, meta) ==
    [name |-> name, type |-> type, meta |-> meta, content |-> <<>>,
     subtree |-> NoId]

set_subtree(node, id) == [node EXCEPT !.subtree = id]

set_content(node, content) == [node EXCEPT !.content = content]

\* Byte-wise order of the names used by the model.
NameOrd ==
    [n \in {"a", "b", "f", "g", "h", "stdin"} |->
        CASE n = "a" -> 1 [] n = "b" -> 2 [] n = "f" -> 3 [] n = "g" -> 4
          [] n = "h" -> 5 [] OTHER -> 6]

\* Insert a node after every node whose name is not greater (stable).
RECURSIVE InsertSorted(_, _)
InsertSorted(sorted, n) ==
    IF sorted = <<>> THEN <<n>>
    ELSE IF NameOrd[n.name] < NameOrd[sorted[1].name]
         THEN <<n>> \o sorted
         ELSE <<sorted[1]>> \o InsertSorted(Tail(sorted), n)

RECURSIVE SortNodes(_)
SortNodes(nodes) ==
    IF nodes = <<>> THEN <<>>
    ELSE InsertSorted(SortNodes(Front(nodes)), Last(nodes))

\* Tree::add: the tree keeps its nodes; the order is fixed on serialize.
tree_add(t, node) == Append(t, node)

\* Tree::serialize: the canonical bytes (nodes sorted by name) and their id.
serialize(t) ==
    LET bytes == SortNodes(t) IN [chunk |-> bytes, id |-> hash(bytes)]

\* chunk.len() of a serialized tree: a header and a fixed cost per node.
tree_len(bytes) == 2 + 3 * Len(bytes)

\* chunk.len() of a data chunk: its bytes.
data_len(bytes) == Len(bytes)

\* Tree::from_backend: read the blob named by the id and deserialize it.
from_backend(id) == id[2]

----------------------------------------------------------------------------
(* Parent cursor: Option<Tree> as a sequence of length 0 or 1 *)

NoParent == <<>>

\* Parent::new(index, tree_id, ..)
parent_new(tree_id) == IF tree_id = NoId THEN NoParent ELSE <<from_backend(tree_id)>>

\* Parent::p_node: the parent's child of the same name, if any.
p_node(p, node) ==
    IF p = NoParent THEN <<>>
    ELSE LET hits == {i \in 1..Len(p[1]) : p[1][i].name = node.name}
         IN IF hits = {} THEN <<>>
            ELSE <<p[1][CHOOSE i \in hits : \A j \in hits : i <= j]>>

\* Parent::is_parent: NotFound without such a child, Matched when kind, size
\* and mtime agree, NotMatched otherwise.
is_parent(p, node) ==
    LET pn == p_node(p, node)
    IN IF pn = <<>> THEN [res |-> "NotFound", node |-> node]
       ELSE IF pn[1].type = node.type /\ pn[1].meta = node.meta
            THEN [res |-> "Matched", node |-> pn[1]]
            ELSE [res |-> "NotMatched", node |-> pn[1]]

\* Parent::sub_parent: the cursor of the child's subtree; no parent when the
\* child is absent or is not a directory like node.
sub_parent(p, node) ==
    LET pn == p_node(p, node)
    IN IF pn = <<>> THEN NoParent
       ELSE IF pn[1].type = node.type /\ pn[1].type = "Dir"
            THEN <<from_backend(pn[1].subtree)>>
            ELSE NoParent

----------------------------------------------------------------------------
(* Index view and packers *)

has_data(id) == id \in index.data

has_tree(id) == id \in index.tree

\* Packer::add: 0 for a blob already added in this session, else the packed
\* size (the bytes plus the pack's per-blob overhead).
packer_add(added, len, id) == IF id \in added THEN 0 ELSE len + 1


----------------------------------------------------------------------------
(* The archiver.  Its methods are operators on the record of its fields,   *)
(* s = [path, tree, parent, stack, data_packer, tree_packer, summary, log, *)
(* err, fault]; an operator that meets s.err # "" returns at once, as `?`  *)
(* does.                                                                   *)

Ok == ""

\* The time the command took for the snapshot (backup.rs:205).
SnapTime == 1

\* What Local::now() returned in Archiver::new (line 47).
BackupStart == 2

\* What Local::now() may return in finalize_snapshot (line 311).
Clock == 0..2

\* SnapshotSummary::default() with backup_start set by Archiver::new.
SummaryDefault ==
    [backup_start |-> BackupStart, backup_end |-> 0,
     backup_duration |-> 0, total_duration |-> 0,
     files_new |-> 0, files_changed |-> 0, files_unmodified |-> 0,
     dirs_new |-> 0, dirs_changed |-> 0, dirs_unmodified |-> 0,
     data_blobs |-> 0, tree_blobs |-> 0,
     data_added |-> 0, data_added_packed |-> 0,
     data_added_files |-> 0, data_added_files_packed |-> 0,
     data_added_trees |-> 0, data_added_trees_packed |-> 0,
     total_files_processed |-> 0, total_dirs_processed |-> 0,
     total_bytes_processed |-> 0, total_dirsize_processed |-> 0]

Self ==
    [path |-> path, tree |-> tree, parent |-> parent, stack |-> stack,
     data_packer |-> data_packer, tree_packer |-> tree_packer,
     summary |-> summary, log |-> log, err |-> err, fault |-> fault]

Logged(s, event) == [s EXCEPT !.log = Append(@, event)]

\* A call that was set to fail returns its error, once.
failed(s, call) ==
    [s EXCEPT !.err = call, !.fault = @ \ {call},
              !.log = Append(@, <<"failed", call>>)]

\* add_file with a file the parent holds changed filed under files_new.
add_file_misfiled(s, node, size) ==
    LET res == is_parent(s.parent, node).res
        counted ==
            CASE res = "Matched" ->
                   [s.summary EXCEPT !.files_unmodified = @ + 1]
              [] OTHER ->
                   [s.summary EXCEPT !.files_new = @ + 1]
    IN [s EXCEPT
          !.log = Append(@, <<"add_file", s.path, node, res, size>>),
          !.tree = tree_add(@, node),
          !.summary = [counted EXCEPT
                         !.total_files_processed = @ + 1,
                         !.total_bytes_processed = @ + size]]

\* Archiver::add_file
add_file(s, node, size) ==
    LET res == is_parent(s.parent, node).res
        counted ==
            CASE res = "Matched" ->
                   [s.summary EXCEPT !.files_unmodified = @ + 1]
              [] res = "NotMatched" ->
                   [s.summary EXCEPT !.files_changed = @ + 1]
              [] OTHER ->
                   [s.summary EXCEPT !.files_new = @ + 1]
    IN [s EXCEPT
          !.log = Append(@, <<"add_file", s.path, node, res, size>>),
          !.tree = tree_add(@, node),
          !.summary = [counted EXCEPT
                         !.total_files_processed = @ + 1,
                         !.total_bytes_processed = @ + size]]

\* Archiver::add_dir
add_dir(s, node, size) ==
    [s EXCEPT
       !.log = Append(@, <<"add_dir", s.path, node, size>>),
       !.tree = tree_add(@, node),
       !.summary.total_dirs_processed = @ + 1,
       !.summary.total_dirsize_processed = @ + size]

\* count_tree leaving data_added and data_added_packed alone.
count_tree_untotalled(s, dirsize, packed_size) ==
    IF packed_size = 0 THEN s
    ELSE [s EXCEPT
            !.summary.tree_blobs = @ + 1,
            !.summary.data_added_trees = @ + dirsize,
            !.summary.data_added_trees_packed = @ + packed_size]

\* backup_tree, lines 204-212: the summary after tree_packer.add returned.
count_tree(s, dirsize, packed_size) ==
    IF packed_size = 0 THEN s
    ELSE [s EXCEPT
            !.summary.tree_blobs = @ + 1,
            !.summary.data_added = @ + dirsize,
            !.summary.data_added_packed = @ + packed_size,
            !.summary.data_added_trees = @ + dirsize,
            !.summary.data_added_trees_packed = @ + packed_size]

\* backup_tree, lines 202-213: the tree goes to the tree packer unless the
\* index has it.
pack_tree(s, id, dirsize) ==
    IF has_tree(id) THEN s
    ELSE IF "tree_packer.add" \in s.fault THEN failed(s, "tree_packer.add")
    ELSE count_tree(
             [s EXCEPT
                !.log = Append(@, <<"tree_add", id,
                                    packer_add(s.tree_packer, dirsize, id)>>),
                !.tree_packer = @ \cup {id}],
             dirsize, packer_add(s.tree_packer, dirsize, id))

\* backup_tree, lines 203-214: `?` on tree_packer.add, then add_dir.
add_packed(s, node, size) ==
    IF s.err # Ok THEN s ELSE add_dir(s, node, size)

\* backup_tree taking every matched directory for unchanged, without
\* comparing the subtree ids.
backup_tree_by_meta(s, node, chunk) ==
    LET pr == is_parent(s.parent, node)
        s0 == Logged(s, <<"backup_tree", s.path, node.subtree, pr.res>>)
    IN IF pr.res = "Matched"
       THEN [add_dir(s0, node, tree_len(chunk)) EXCEPT
               !.summary.dirs_unmodified = @ + 1]
       ELSE add_dir(
                pack_tree(
                    IF pr.res = "NotFound"
                    THEN [s0 EXCEPT !.summary.dirs_new = @ + 1]
                    ELSE [s0 EXCEPT !.summary.dirs_changed = @ + 1],
                    node.subtree, tree_len(chunk)),
                node, tree_len(chunk))

\* Archiver::backup_tree
backup_tree(s, node, chunk) ==
    LET pr == is_parent(s.parent, node)
        s0 == Logged(s, <<"backup_tree", s.path, node.subtree, pr.res>>)
    IN IF pr.res = "Matched" /\ node.subtree = pr.node.subtree
       THEN [add_dir(s0, node, tree_len(chunk)) EXCEPT
               !.summary.dirs_unmodified = @ + 1]
       ELSE add_packed(
                pack_tree(
                    IF pr.res = "NotFound"
                    THEN [s0 EXCEPT !.summary.dirs_new = @ + 1]
                    ELSE [s0 EXCEPT !.summary.dirs_changed = @ + 1],
                    node.subtree, tree_len(chunk)),
                node, tree_len(chunk))

RECURSIVE finish_trees(_, _)

\* pop_path leaving the current path as it is.
pop_path_kept(s, target) ==
    IF s.err # Ok THEN s
    ELSE finish_trees(s, target)

\* finish_trees, lines 173-174: `?` on backup_tree's result, then path.pop().
pop_path(s, target) ==
    IF s.err # Ok THEN s
    ELSE finish_trees([s EXCEPT !.path = path_pop(@)], target)

\* pop_tree dropping the popped directory instead of calling backup_tree.
pop_tree_dropped(s, ser, target) ==
    IF s.stack = <<>>
    THEN [s EXCEPT !.err = "tree stack empty??"]
    ELSE pop_path([s EXCEPT !.stack = Front(@),
                            !.tree = Last(s.stack).tree,
                            !.parent = Last(s.stack).parent],
                  target)

\* pop_tree going on with the tree of the directory left.
pop_tree_tree_kept(s, ser, target) ==
    IF s.stack = <<>>
    THEN [s EXCEPT !.err = "tree stack empty??"]
    ELSE pop_path(backup_tree([s EXCEPT !.stack = Front(@),
                                        !.parent = Last(s.stack).parent],
                              set_subtree(Last(s.stack).node, ser.id),
                              ser.chunk),
                  target)

\* pop_tree leaving the cursor of the directory left in place.
pop_tree_cursor_kept(s, ser, target) ==
    IF s.stack = <<>>
    THEN [s EXCEPT !.err = "tree stack empty??"]
    ELSE pop_path(backup_tree([s EXCEPT !.stack = Front(@),
                                        !.tree = Last(s.stack).tree],
                              set_subtree(Last(s.stack).node, ser.id),
                              ser.chunk),
                  target)

\* finish_trees, lines 164-173: pop the frame of the directory whose tree
\* serialized to ser, restore the outer tree and cursor, call backup_tree.
pop_tree(s, ser, target) ==
    IF s.stack = <<>>
    THEN [s EXCEPT !.err = "tree stack empty??"]
    ELSE pop_path(backup_tree([s EXCEPT !.stack = Front(@),
                                        !.tree = Last(s.stack).tree,
                                        !.parent = Last(s.stack).parent],
                              set_subtree(Last(s.stack).node, ser.id),
                              ser.chunk),
                  target)

\* Archiver::finish_trees
finish_trees(s, target) ==
    IF s.err # Ok \/ starts_with(target, s.path) THEN s
    ELSE pop_tree(Logged(s, <<"serialize", s.path, serialize(s.tree).id>>),
                  serialize(s.tree), target)

\* count_data counting every call of the packer, whatever it returned.
count_data_always(s, size, packed_size) ==
    [s EXCEPT
       !.summary.data_blobs = @ + 1,
       !.summary.data_added = @ + size,
       !.summary.data_added_packed = @ + packed_size,
       !.summary.data_added_files = @ + size,
       !.summary.data_added_files_packed = @ + packed_size]

\* process_data_junk, lines 282-290: the summary after data_packer.add.
count_data(s, size, packed_size) ==
    IF packed_size = 0 THEN s
    ELSE [s EXCEPT
            !.summary.data_blobs = @ + 1,
            !.summary.data_added = @ + size,
            !.summary.data_added_packed = @ + packed_size,
            !.summary.data_added_files = @ + size,
            !.summary.data_added_files_packed = @ + packed_size]

\* process_data_junk handing every chunk to the packer, without asking the
\* index.
process_data_junk_unasked(s, id, chunk, size) ==
    count_data(
        [s EXCEPT
           !.log = Append(@, <<"data_add", id,
                               packer_add(s.data_packer, size, id)>>),
           !.data_packer = @ \cup {id}],
        size, packer_add(s.data_packer, size, id))

\* Archiver::process_data_junk
process_data_junk(s, id, chunk, size) ==
    IF has_data(id) THEN s
    ELSE IF "data_packer.add" \in s.fault THEN failed(s, "data_packer.add")
    ELSE count_data(
             [s EXCEPT
                !.log = Append(@, <<"data_add", id,
                                    packer_add(s.data_packer, size, id)>>),
                !.data_packer = @ \cup {id}],
             size, packer_add(s.data_packer, size, id))

\* consume_chunk putting the id in front of the content list.
consume_chunk_in_front(acc, chunk, id) ==
    [s |-> process_data_junk(Logged(acc.s, <<"chunk", id>>), id, chunk,
                             data_len(chunk)),
     content |-> <<id>> \o acc.content,
     filesize |-> acc.filesize + data_len(chunk)]

\* The try_for_each closure of backup_reader (lines 257-265): one element of
\* the hashed chunk stream, acc = [s, content, filesize].
consume_chunk(acc, chunk, id) ==
    [s |-> process_data_junk(Logged(acc.s, <<"chunk", id>>), id, chunk,
                             data_len(chunk)),
     content |-> Append(acc.content, id),
     filesize |-> acc.filesize + data_len(chunk)]

\* The chunk stream of backup_reader consumed in order, from element i on.
\* f.bad = k > 0: the k-th element of the stream is a read failure.
RECURSIVE read_chunks(_, _, _)
read_chunks(acc, f, i) ==
    IF acc.s.err # Ok THEN acc
    ELSE IF i = f.bad
         THEN [acc EXCEPT !.s.err = "read error"]
         ELSE IF i > Len(f.chunks) THEN acc
              ELSE read_chunks(
                       consume_chunk(acc, f.chunks[i], hash(f.chunks[i])),
                       f, i + 1)

\* finish_file adding the node with the chunks read so far, error or not.
finish_file_partial(acc, node) ==
    add_file(acc.s, set_content(node, acc.content), acc.filesize)

\* backup_reader, lines 265-270: `?` on the stream, then the node is added.
finish_file(acc, node) ==
    IF acc.s.err # Ok THEN acc.s
    ELSE add_file(acc.s, set_content(node, acc.content), acc.filesize)

\* Archiver::backup_reader
backup_reader(s, f, node) ==
    finish_file(
        read_chunks([s |-> s, content |-> <<>>, filesize |-> 0], f, 1), node)

\* backup_file reusing the parent's content of every matched file, without
\* asking the index.
backup_file_unasked(s, real_path, f, node) ==
    LET pr == is_parent(s.parent, node)
    IN IF pr.res = "Matched"
       THEN add_file(Logged(s, <<"reuse", real_path>>),
                     set_content(node, pr.node.content),
                     pr.node.meta.size)
       ELSE IF ~f.exists
            THEN [s EXCEPT !.err = "open failed"]
            ELSE backup_reader(Logged(s, <<"open", real_path>>), f, node)

\* backup_file reusing the parent's content when the index has any of its
\* ids (any for all).
backup_file_any(s, real_path, f, node) ==
    LET pr == is_parent(s.parent, node)
    IN IF pr.res = "Matched"
          /\ \E i \in 1..Len(pr.node.content) : has_data(pr.node.content[i])
       THEN add_file(Logged(s, <<"reuse", real_path>>),
                     set_content(node, pr.node.content),
                     pr.node.meta.size)
       ELSE IF ~f.exists
            THEN [s EXCEPT !.err = "open failed"]
            ELSE backup_reader(Logged(s, <<"open", real_path>>), f, node)

\* Archiver::backup_file
backup_file(s, real_path, f, node) ==
    LET pr == is_parent(s.parent, node)
    IN IF pr.res = "Matched"
          /\ \A i \in 1..Len(pr.node.content) : has_data(pr.node.content[i])
       THEN add_file(Logged(s, <<"reuse", real_path>>),
                     set_content(node, pr.node.content),
                     pr.node.meta.size)
       ELSE IF ~f.exists
            THEN [s EXCEPT !.err = "open failed"]
            ELSE backup_reader(Logged(s, <<"open", real_path>>), f, node)

\* push_dir going on with the outer tree instead of a fresh one.
push_dir_same_tree(s, dir) ==
    [s EXCEPT
       !.log = Append(@, <<"push", s.path, dir>>),
       !.parent = sub_parent(s.parent, dir),
       !.stack = Append(@, [node |-> dir, tree |-> s.tree,
                            parent |-> s.parent])]

\* add_entry, lines 131-142: a frame for directory node dir is pushed, the
\* current tree becomes a fresh one and the cursor that of dir.
push_dir(s, dir) ==
    [s EXCEPT
       !.log = Append(@, <<"push", s.path, dir>>),
       !.tree = <<>>,
       !.parent = sub_parent(s.parent, dir),
       !.stack = Append(@, [node |-> dir, tree |-> s.tree,
                            parent |-> s.parent])]

RECURSIVE descend(_, _, _, _)

\* descend_into giving a directory that was not delivered the metadata of
\* the node in hand.
descend_into_copied_meta(s, comps, spath, node) ==
    IF Head(comps) = RootDir THEN descend(s, Tail(comps), spath, node)
    ELSE IF ~IsNormal(Head(comps))
         THEN [s |-> [s EXCEPT !.err =
                        "path should not contain current or parent dir"],
               returned |-> TRUE]
         ELSE IF s.path = spath
              THEN [s |-> push_dir(s, node), returned |-> TRUE]
              ELSE descend(push_dir(s, new_node(Head(comps), "Dir",
                                                node.meta)),
                           Tail(comps), spath, node)

\* descend_into pushing a frame for the root component as well.
descend_into_root_framed(s, comps, spath, node) ==
    IF Head(comps) \in {".", ".."}
    THEN [s |-> [s EXCEPT !.err =
                   "path should not contain current or parent dir"],
          returned |-> TRUE]
    ELSE IF s.path = spath
         THEN [s |-> push_dir(s, node), returned |-> TRUE]
         ELSE descend(push_dir(s, new_node(Head(comps), "Dir", DefaultMeta)),
                      Tail(comps), spath, node)

\* add_entry, lines 126-146: the component just pushed onto s.path.
descend_into(s, comps, spath, node) ==
    IF Head(comps) = RootDir THEN descend(s, Tail(comps), spath, node)
    ELSE IF ~IsNormal(Head(comps))
         THEN [s |-> [s EXCEPT !.err =
                        "path should not contain current or parent dir"],
               returned |-> TRUE]
         ELSE IF s.path = spath
              THEN [s |-> push_dir(s, node), returned |-> TRUE]
              ELSE descend(push_dir(s, new_node(Head(comps), "Dir",
                                                DefaultMeta)),
                           Tail(comps), spath, node)

\* descend leaving the current path where it is.
descend_unmoved(s, comps, spath, node) ==
    IF comps = <<>> THEN [s |-> s, returned |-> FALSE]
    ELSE descend_into(s, comps, spath, node)

\* The loop over missing_dirs in add_entry (lines 124-147);
\* returns [s, returned]: returned = the loop left add_entry (line 137, 145).
descend(s, comps, spath, node) ==
    IF comps = <<>> THEN [s |-> s, returned |-> FALSE]
    ELSE descend_into([s EXCEPT !.path = path_push(@, Head(comps))],
                      comps, spath, node)

\* dispatch handing every entry that is not a directory to backup_file.
dispatch_opening(d, real_path, f, node) ==
    IF d.returned THEN d.s
    ELSE CASE node.type = "Dir" -> d.s
           [] OTHER -> backup_file(d.s, real_path, f, node)

\* dispatch adding a directory whose path was the current one as an entry.
dispatch_dir_added(d, real_path, f, node) ==
    IF d.returned THEN d.s
    ELSE CASE node.type = "File" -> backup_file(d.s, real_path, f, node)
           [] OTHER -> add_file(d.s, node, 0)

\* add_entry, lines 149-156: the entry dispatched by its kind.
dispatch(d, real_path, f, node) ==
    IF d.returned THEN d.s
    ELSE CASE node.type = "File" -> backup_file(d.s, real_path, f, node)
           [] node.type = "Dir" -> d.s
           [] OTHER -> add_file(d.s, node, 0)

\* add_entry, lines 121-156: after finish_trees(basepath).
enter(s, base, spath, real_path, f, node) ==
    IF s.err # Ok THEN s
    ELSE IF ~IsPrefix(s.path, base)
         THEN [s EXCEPT !.err = "prefix not found"]
         ELSE dispatch(descend(s, SubSeq(base, Len(s.path) + 1, Len(base)),
                               spath, node),
                       real_path, f, node)

\* add_entry, line 121: `?` on finish_trees(basepath); the history keeps
\* the path, the tree and the cursor the unwind left.
unwound(s) ==
    IF s.err # Ok THEN s
    ELSE Logged(s, <<"unwound", s.path, s.tree, s.parent>>)

\* Archiver::add_entry
add_entry(s, spath, real_path, f, node) ==
    IF node.type # "Dir" /\ path_parent(spath) = <<>>
    THEN [s EXCEPT !.err = "file path should have a parent!"]
    ELSE enter(unwound(finish_trees(
                   Logged(s, <<"add_entry", spath, node>>),
                   IF node.type = "Dir" THEN spath
                   ELSE path_parent(spath)[1])),
               IF node.type = "Dir" THEN spath ELSE path_parent(spath)[1],
               spath, real_path, f, node)

\* SnapshotFile as far as the command and the archiver fill it.
SnapDefault == [time |-> SnapTime, parent |-> NoId, tree |-> NoId,
                id |-> NoId, summary |-> SummaryDefault]

\* commit counting the root tree like a tree packed by backup_tree.
commit_counted(s, sn, ser) ==
    IF has_tree(ser.id)
    THEN [s |-> s, snap |-> [sn EXCEPT !.tree = ser.id]]
    ELSE IF "tree_packer.add" \in s.fault
         THEN [s |-> failed(s, "tree_packer.add"), snap |-> sn]
         ELSE [s |-> count_tree(
                        [s EXCEPT
                           !.log = Append(@, <<"root_add", ser.id,
                                               packer_add(s.tree_packer,
                                                          tree_len(ser.chunk),
                                                          ser.id)>>),
                           !.tree_packer = @ \cup {ser.id}],
                        tree_len(ser.chunk),
                        packer_add(s.tree_packer, tree_len(ser.chunk),
                                   ser.id)),
               snap |-> [sn EXCEPT !.tree = ser.id]]

\* finalize_snapshot, lines 300-303: the root tree goes to the tree packer
\* unless the index has it, and its id is stamped into the snapshot.
commit(s, sn, ser) ==
    IF has_tree(ser.id)
    THEN [s |-> s, snap |-> [sn EXCEPT !.tree = ser.id]]
    ELSE IF "tree_packer.add" \in s.fault
         THEN [s |-> failed(s, "tree_packer.add"), snap |-> sn]
         ELSE [s |-> [s EXCEPT
                        !.log = Append(@, <<"root_add", ser.id,
                                            packer_add(s.tree_packer,
                                                       tree_len(ser.chunk),
                                                       ser.id)>>),
                        !.tree_packer = @ \cup {ser.id}],
               snap |-> [sn EXCEPT !.tree = ser.id]]

\* finalize_snapshot, lines 297-299: `?` on finish_trees, then serialize.
commit_root(s, sn) ==
    IF s.err # Ok THEN [s |-> s, snap |-> sn]
    ELSE commit(Logged(s, <<"serialize", s.path, serialize(s.tree).id>>),
                sn, serialize(s.tree))

\* finalize_snapshot, lines 305-310: one of data_packer.finalize()?,
\* tree_packer.finalize()? and indexer.finalize()?; r = [s, snap].
finalize_call(r, call) ==
    IF r.s.err # Ok THEN r
    ELSE IF call \in r.s.fault THEN [r EXCEPT !.s = failed(r.s, call)]
         ELSE [r EXCEPT !.s = Logged(r.s, <<call>>)]

\* chrono's Duration::to_std: an error for a negative duration.
to_std(d) == IF d < 0 THEN [ok |-> FALSE, secs |-> 0]
             ELSE [ok |-> TRUE, secs |-> d]

\* finalize_snapshot, lines 311-316: the durations up to end_time = now.
set_durations(r, now) ==
    IF r.s.err # Ok THEN r
    ELSE IF ~to_std(now - r.s.summary.backup_start).ok
            \/ ~to_std(now - r.snap.time).ok
         THEN [r EXCEPT !.s.err = "OutOfRangeError",
                        !.s.log = Append(@, <<"end_time", now>>)]
         ELSE [r EXCEPT
                 !.s.log = Append(@, <<"end_time", now>>),
                 !.s.summary.backup_duration =
                     to_std(now - r.s.summary.backup_start).secs,
                 !.s.summary.total_duration =
                     to_std(now - r.snap.time).secs,
                 !.s.summary.backup_end = now]

\* finalize_snapshot, lines 318-319: be.save_file(&self.snap)?, whose result
\* is the id of the manifest.
save_file(s, sn) ==
    IF "save_file" \in s.fault
    THEN [s |-> failed(s, "save_file"), snap |-> sn]
    ELSE [s |-> Logged(s, <<"save_file", hash(sn)>>),
          snap |-> [sn EXCEPT !.id = hash(sn)]]

\* save_snapshot saving the manifest whatever the steps before returned.
save_snapshot_anyway(r) ==
    save_file(r.s, [r.snap EXCEPT !.summary = r.s.summary])

\* finalize_snapshot, lines 317-321: the summary goes into the snapshot,
\* which is saved.
save_snapshot(r) ==
    IF r.s.err # Ok THEN r
    ELSE save_file(r.s, [r.snap EXCEPT !.summary = r.s.summary])

\* Archiver::finalize_snapshot, with now what Local::now() returns at line 311;
\* returns [s, snap]: s.err # Ok = an error and no snapshot.
finalize_snapshot(s, sn, now) ==
    save_snapshot(
        set_durations(
            finalize_call(
                finalize_call(
                    finalize_call(
                        commit_root(
                            finish_trees(
                                Logged(s, <<"finalize_snapshot", s.path,
                                            Len(s.stack)>>),
                                <<RootDir>>),
                            sn),
                        "data_packer.finalize"),
                    "tree_packer.finalize"),
                "indexer.finalize"),
            now))

----------------------------------------------------------------------------
(* The source: what the walk of the backup path may deliver *)

Chunk1 == <<1>>

Chunk2 == <<2, 2>>

\* What reading a file may yield: its chunks, as the chunker splits them.
Contents == {<<>>, <<Chunk1, Chunk1>>, <<Chunk2>>}

RECURSIVE ContentSize(_)
ContentSize(chunks) ==
    IF chunks = <<>> THEN 0
    ELSE data_len(Head(chunks)) + ContentSize(Tail(chunks))

Readable(chunks) == [exists |-> TRUE, chunks |-> chunks, bad |-> 0]

\* The directories, files and links of the source, and the mtimes a walk may
\* find on each.
DirPaths == {<<"a">>, <<"a", "b">>, <<"h">>}

FilePaths == {<<"a", "b", "f">>, <<"a", "g">>}

LinkPaths == {<<"h">>}

Mtimes(p) == IF p = <<"a">> THEN {0, 1} ELSE {0}

\* An entry: the path below the backup path, the node and the file behind it.
DirEntries ==
    {[rel |-> pm[1],
      node |-> new_node(Last(pm[1]), "Dir", [mtime |-> pm[2], size |-> 0]),
      file |-> Readable(<<>>)] :
        pm \in {x \in DirPaths \X {0, 1} : x[2] \in Mtimes(x[1])}}

FileEntries ==
    {[rel |-> p,
      node |-> new_node(Last(p), "File",
                        [mtime |-> 0, size |-> ContentSize(c)]),
      file |-> Readable(c)] : p \in FilePaths, c \in Contents}

LinkEntries ==
    {[rel |-> p,
      node |-> new_node(Last(p), "Symlink", [mtime |-> 0, size |-> 0]),
      file |-> Readable(<<>>)] : p \in LinkPaths}

Entries == DirEntries \cup FileEntries \cup LinkEntries

\* The snapshot path of an entry (backup.rs:254-260, no as_path).
SnapshotPath(rel) == (IF rooted THEN <<RootDir>> ELSE <<>>) \o rel

----------------------------------------------------------------------------
(* The backup command: Init is Archiver::new on an empty repository *)

Install(s) ==
    /\ path' = s.path
    /\ tree' = s.tree
    /\ parent' = s.parent
    /\ stack' = s.stack
    /\ data_packer' = s.data_packer
    /\ tree_packer' = s.tree_packer
    /\ summary' = s.summary
    /\ log' = s.log
    /\ err' = s.err
    /\ fault' = s.fault

Init ==
    /\ path = <<>>
    /\ tree = <<>>
    /\ parent = NoParent
    /\ stack = <<>>
    /\ index = [data |-> {}, tree |-> {}]
    /\ data_packer = {}
    /\ tree_packer = {}
    /\ summary = SummaryDefault
    /\ snap = SnapDefault
    /\ log = <<>>
    /\ err = Ok
    /\ phase = "backup"
    /\ run = 1
    /\ stdin \in BOOLEAN
    /\ rooted = FALSE
    /\ saved = <<>>
    /\ nentries = 0
    /\ stream = <<>>
    /\ replay = FALSE
    /\ pipe = <<>>
    /\ fault = {}
    /\ force = FALSE
    /\ rest = <<>>

\* backup.rs:261-263: an error of add_entry is logged and the loop goes on.
warned(s) ==
    IF s.err = Ok THEN s ELSE Logged(s, <<"ignoring error", s.err>>)

\* backup.rs:248-266: one item of the source handed to add_entry.
Deliver(e) ==
    /\ Install(warned(add_entry([Self EXCEPT !.err = Ok],
                                SnapshotPath(e.rel), SnapshotPath(e.rel),
                                e.file, e.node)))
    /\ nentries' = nentries + 1
    /\ stream' = IF run = 1 THEN Append(stream, e) ELSE stream
    /\ UNCHANGED <<index, snap, phase, run, stdin, rooted, saved, replay, pipe,
                   force, rest>>

AddEntry ==
    /\ phase = "backup"
    /\ ~stdin
    /\ ~replay
    /\ nentries < MaxEntries
    /\ \E e \in Entries : Deliver(e)

\* backup.rs:223-233: `?` on backup_reader ends the command on an error.
StdinRead(s) ==
    /\ Install(s)
    /\ phase' = IF s.err = Ok THEN "backup" ELSE "failed"

\* backup.rs:220-233: stdin streamed into one file node.
BackupStdin ==
    /\ phase = "backup"
    /\ stdin
    /\ nentries < MaxEntries
    /\ \A i \in 1..Len(log) : log[i][1] # "add_file"
    /\ \E c \in Contents :
          StdinRead(backup_reader([Self EXCEPT !.err = Ok], Readable(c),
                                  new_node("stdin", "File", DefaultMeta)))
    /\ nentries' = nentries + 1
    /\ UNCHANGED <<index, snap, run, stdin, rooted, saved, stream, replay,
                   pipe, force, rest>>

Finalized(r) ==
    /\ Install(r.s)
    /\ snap' = r.snap
    /\ phase' = IF r.s.err = Ok THEN "saved" ELSE "failed"
    /\ saved' = IF r.s.err = Ok THEN Append(saved, r.snap) ELSE saved

\* backup.rs:235 and 267: archiver.finalize_snapshot()?, with the clock at
\* now when it reaches line 311.
FinalizeAt(now) ==
    /\ phase = "backup"
    /\ stdin => \E i \in 1..Len(log) : log[i][1] = "add_file"
    /\ (replay /\ run = 2) => nentries = 2 * Len(stream)
    /\ Finalized(finalize_snapshot([Self EXCEPT !.err = Ok], snap, now))
    /\ UNCHANGED <<index, run, stdin, rooted, nentries, stream, replay, pipe,
                   force, rest>>

\* The command finishes with a clock that did not go back.
Finalize == FinalizeAt(BackupStart)

\* select_parent paying no attention to force.
select_parent_unforced(backup_stdin, forced, latest) ==
    IF backup_stdin THEN <<>> ELSE latest

\* backup.rs:176-185: the parent snapshot of a run, if any; latest = the
\* snapshot SnapshotFile::latest or from_id found (<<>> = none).
select_parent(backup_stdin, forced, latest) ==
    IF backup_stdin \/ forced THEN <<>> ELSE latest

\* The next invocation of the command on the same source (backup.rs:145-221):
\* the index now holds what the first run packed, the parent is the snapshot
\* select_parent picks; lost = the data blobs gone from the index since.
NewRun(lost) ==
    /\ phase = "saved"
    /\ run = 1
    /\ run' = 2
    /\ phase' = "backup"
    /\ index' = [data |-> (index.data \cup data_packer) \ lost,
                 tree |-> index.tree \cup tree_packer]
    /\ LET chosen == select_parent(stdin, force, <<Last(saved)>>)
           parent_tree == IF chosen = <<>> THEN NoId ELSE chosen[1].tree
       IN /\ parent' = parent_new(parent_tree)
          /\ snap' = [SnapDefault EXCEPT
                        !.parent = IF chosen = <<>> THEN NoId
                                   ELSE chosen[1].id]
    /\ path' = <<>>
    /\ tree' = <<>>
    /\ stack' = <<>>
    /\ data_packer' = {}
    /\ tree_packer' = {}
    /\ summary' = SummaryDefault
    /\ log' = <<>>
    /\ err' = Ok
    /\ UNCHANGED <<stdin, rooted, saved, nentries, stream, replay, pipe, fault,
                   force, rest>>

StartRun == ~replay /\ \E lost \in {{}, {hash(Chunk1)}} : NewRun(lost)

Next == AddEntry \/ BackupStdin \/ Finalize \/ StartRun

Spec == Init /\ [][Next]_vars

----------------------------------------------------------------------------
(* Runs that use no parent: force is set or the run reads stdin *)

InitForce ==
    /\ path = <<>>
    /\ tree = <<>>
    /\ parent = NoParent
    /\ stack = <<>>
    /\ index = [data |-> {}, tree |-> {}]
    /\ data_packer = {}
    /\ tree_packer = {}
    /\ summary = SummaryDefault
    /\ snap = SnapDefault
    /\ log = <<>>
    /\ err = Ok
    /\ phase = "backup"
    /\ run = 1
    /\ stdin \in BOOLEAN
    /\ rooted = FALSE
    /\ saved = <<>>
    /\ nentries = 0
    /\ stream = <<>>
    /\ replay = FALSE
    /\ pipe = <<>>
    /\ fault = {}
    /\ force \in BOOLEAN
    /\ force \/ stdin
    /\ rest = <<>>

SpecForce == InitForce /\ [][Next]_vars

----------------------------------------------------------------------------
(* One run over a backup path given as a relative or as an absolute path,  *)
(* the entries in any order                                                *)

InitPaths ==
    /\ path = <<>>
    /\ tree = <<>>
    /\ parent = NoParent
    /\ stack = <<>>
    /\ index = [data |-> {}, tree |-> {}]
    /\ data_packer = {}
    /\ tree_packer = {}
    /\ summary = SummaryDefault
    /\ snap = SnapDefault
    /\ log = <<>>
    /\ err = Ok
    /\ phase = "backup"
    /\ run = 1
    /\ stdin = FALSE
    /\ rooted \in BOOLEAN
    /\ saved = <<>>
    /\ nentries = 0
    /\ stream = <<>>
    /\ replay = FALSE
    /\ pipe = <<>>
    /\ fault = {}
    /\ force = FALSE
    /\ rest = <<>>

\* The walk of an absolute backup path "/" delivers the root directory.
RootEntry ==
    [rel |-> <<>>,
     node |-> new_node(RootDir, "Dir", [mtime |-> 1, size |-> 0]),
     file |-> Readable(<<>>)]

AddRootDir ==
    /\ phase = "backup"
    /\ rooted
    /\ nentries < MaxEntries
    /\ Deliver(RootEntry)

NextPaths == AddEntry \/ AddRootDir \/ Finalize

SpecPaths == InitPaths /\ [][NextPaths]_vars

----------------------------------------------------------------------------
(* One run over files that may fail to open or to read *)

\* What opening and reading a file of two chunks may yield: no file, or the
\* chunks with the element at position bad failed (0 = none, 3 = the read
\* after the last chunk).
BrokenFiles ==
    {[exists |-> FALSE, chunks |-> <<>>, bad |-> 0]} \cup
    {[exists |-> TRUE, chunks |-> <<Chunk1, Chunk2>>, bad |-> b] :
        b \in 0..3}

ReadEntries ==
    {[rel |-> p,
      node |-> new_node(Last(p), "File", [mtime |-> 0, size |-> 3]),
      file |-> f] : p \in FilePaths, f \in BrokenFiles}

InitRead ==
    /\ path = <<>>
    /\ tree = <<>>
    /\ parent = NoParent
    /\ stack = <<>>
    /\ index = [data |-> {}, tree |-> {}]
    /\ data_packer = {}
    /\ tree_packer = {}
    /\ summary = SummaryDefault
    /\ snap = SnapDefault
    /\ log = <<>>
    /\ err = Ok
    /\ phase = "backup"
    /\ run = 1
    /\ stdin = FALSE
    /\ rooted = FALSE
    /\ saved = <<>>
    /\ nentries = 0
    /\ stream = <<>>
    /\ replay = FALSE
    /\ pipe = <<>>
    /\ fault = {}
    /\ force = FALSE
    /\ rest = <<>>

\* backup.rs:248-266: one file of the source handed to add_entry.
AddReadEntry ==
    /\ phase = "backup"
    /\ nentries < MaxEntries
    /\ \E e \in ReadEntries : Deliver(e)

NextRead == AddReadEntry \/ Finalize

SpecRead == InitRead /\ [][NextRead]_vars

----------------------------------------------------------------------------
(* One run over a source whose paths may hold a ".." component *)

\* What the walk may deliver: two files, a symlink, and a file whose
\* snapshot path goes through "..".
OddEntries ==
    {[rel |-> p,
      node |-> new_node(Last(p), "File", [mtime |-> 0, size |-> 2]),
      file |-> Readable(<<Chunk2>>)] :
        p \in FilePaths \cup {<<"a", "..", "g">>}}
    \cup LinkEntries

InitOdd ==
    /\ path = <<>>
    /\ tree = <<>>
    /\ parent = NoParent
    /\ stack = <<>>
    /\ index = [data |-> {}, tree |-> {}]
    /\ data_packer = {}
    /\ tree_packer = {}
    /\ summary = SummaryDefault
    /\ snap = SnapDefault
    /\ log = <<>>
    /\ err = Ok
    /\ phase = "backup"
    /\ run = 1
    /\ stdin = FALSE
    /\ rooted \in BOOLEAN
    /\ saved = <<>>
    /\ nentries = 0
    /\ stream = <<>>
    /\ replay = FALSE
    /\ pipe = <<>>
    /\ fault = {}
    /\ force = FALSE
    /\ rest = <<>>

\* backup.rs:248-266: one item of the source handed to add_entry.
AddOddEntry ==
    /\ phase = "backup"
    /\ nentries < MaxEntries
    /\ \E e \in OddEntries : Deliver(e)

NextOdd == AddOddEntry \/ Finalize

SpecOdd == InitOdd /\ [][NextOdd]_vars

----------------------------------------------------------------------------
(* The re-backup scenario: the source is walked in preorder, and a second  *)
(* run walks the unchanged source again with the first snapshot as parent  *)

ProperPrefix(p, q) == Len(p) < Len(q) /\ IsPrefix(p, q)

\* seq is (part of) a preorder walk: no path twice, nothing below a node that
\* is not a directory, no directory after an entry below it, and no
\* directory entered again once the walk has left it.
Preorder(seq) ==
    /\ \A i, k \in 1..Len(seq) :
          i < k =>
             /\ seq[i].rel # seq[k].rel
             /\ ~ProperPrefix(seq[k].rel, seq[i].rel)
             /\ ProperPrefix(seq[i].rel, seq[k].rel) =>
                   seq[i].node.type = "Dir"
    /\ \A i, j, k \in 1..Len(seq) :
          (i < j /\ j < k) =>
             \A n \in 1..Len(seq[i].rel) :
                (/\ n <= Len(seq[k].rel)
                 /\ SubSeq(seq[i].rel, 1, n) = SubSeq(seq[k].rel, 1, n)) =>
                   IsPrefix(SubSeq(seq[i].rel, 1, n), seq[j].rel)

InitIdem ==
    /\ path = <<>>
    /\ tree = <<>>
    /\ parent = NoParent
    /\ stack = <<>>
    /\ index = [data |-> {}, tree |-> {}]
    /\ data_packer = {}
    /\ tree_packer = {}
    /\ summary = SummaryDefault
    /\ snap = SnapDefault
    /\ log = <<>>
    /\ err = Ok
    /\ phase = "backup"
    /\ run = 1
    /\ stdin = FALSE
    /\ rooted \in BOOLEAN
    /\ saved = <<>>
    /\ nentries = 0
    /\ stream = <<>>
    /\ replay = TRUE
    /\ pipe = <<>>
    /\ fault = {}
    /\ force = FALSE
    /\ rest = <<>>

\* The first walk of the source.
WalkEntry ==
    /\ phase = "backup"
    /\ run = 1
    /\ nentries < MaxEntries
    /\ \E e \in Entries : Preorder(Append(stream, e)) /\ Deliver(e)

\* The second run, with nothing lost from the index.
RebackupRun == replay /\ NewRun({})

\* The second walk delivers what the first one did.
ReplayEntry ==
    /\ phase = "backup"
    /\ run = 2
    /\ nentries < 2 * Len(stream)
    /\ Deliver(stream[nentries - Len(stream) + 1])

NextIdem == WalkEntry \/ Finalize \/ RebackupRun \/ ReplayEntry

SpecIdem == InitIdem /\ [][NextIdem]_vars

----------------------------------------------------------------------------
(* The hashing pipeline of backup_reader (lines 248-265): the chunks of    *)
(* one file go through parallel_map to the closure of try_for_each.        *)
(* pipe = [chunks, next, hashing, hashed, content, filesize, overtook];    *)
(* overtook records that a thread finished a chunk while an earlier,       *)
(* different chunk was still being hashed.                                 *)

\* The chunks of the longest file streamed.
MaxChunks == 3

\* The threads of parallel_map.
Workers == 2

ChunkSeqs == UNION {[1..n -> {Chunk1, Chunk2}] : n \in 0..MaxChunks}

InitPar ==
    /\ path = <<>>
    /\ tree = <<>>
    /\ parent = NoParent
    /\ stack = <<>>
    /\ index \in {[data |-> {}, tree |-> {}],
                  [data |-> {hash(Chunk1)}, tree |-> {}]}
    /\ data_packer = {}
    /\ tree_packer = {}
    /\ summary = SummaryDefault
    /\ snap = SnapDefault
    /\ log = <<>>
    /\ err = Ok
    /\ phase = "reader"
    /\ run = 1
    /\ stdin = TRUE
    /\ rooted = FALSE
    /\ saved = <<>>
    /\ nentries = 0
    /\ stream = <<>>
    /\ replay = FALSE
    /\ \E c \in ChunkSeqs :
          pipe = [chunks |-> c, next |-> 1, hashing |-> {}, hashed |-> {},
                  content |-> <<>>, filesize |-> 0, overtook |-> FALSE]
    /\ fault = {}
    /\ force = FALSE
    /\ rest = <<>>

\* parallel_map hands the next chunk of the iterator to a free thread.
TakeChunk ==
    /\ phase = "reader"
    /\ pipe.next <= Len(pipe.chunks)
    /\ Cardinality(pipe.hashing) < Workers
    /\ pipe' = [pipe EXCEPT !.next = @ + 1, !.hashing = @ \cup {pipe.next}]
    /\ UNCHANGED <<path, tree, parent, stack, index, data_packer, tree_packer,
                   summary, snap, log, err, phase, run, stdin, rooted, saved,
                   nentries, stream, replay, fault, force, rest>>

\* A thread finishes the closure of parallel_map (lines 252-256) on chunk i.
HashChunk(i) ==
    /\ phase = "reader"
    /\ i \in pipe.hashing
    /\ pipe' = [pipe EXCEPT
                  !.hashing = @ \ {i},
                  !.hashed = @ \cup {<<i, hash(pipe.chunks[i])>>},
                  !.overtook = @ \/ \E j \in pipe.hashing :
                                       j < i /\ pipe.chunks[j] # pipe.chunks[i]]
    /\ UNCHANGED <<path, tree, parent, stack, index, data_packer, tree_packer,
                   summary, snap, log, err, phase, run, stdin, rooted, saved,
                   nentries, stream, replay, fault, force, rest>>

\* parallel_map yields its results in the order of its input: the result the
\* consumer gets next is that of the chunk after the last one it got.
next_result(pp) == {r \in pp.hashed : r[1] = Len(pp.content) + 1}

\* try_for_each takes the next result (lines 257-265).
ConsumeChunk ==
    /\ phase = "reader"
    /\ \E r \in next_result(pipe) :
          LET acc == consume_chunk([s |-> [Self EXCEPT !.err = Ok],
                                    content |-> pipe.content,
                                    filesize |-> pipe.filesize],
                                   pipe.chunks[r[1]], r[2])
          IN /\ Install(acc.s)
             /\ pipe' = [pipe EXCEPT !.hashed = @ \ {r},
                                     !.content = acc.content,
                                     !.filesize = acc.filesize]
    /\ UNCHANGED <<index, snap, phase, run, stdin, rooted, saved, nentries,
                   stream, replay, force, rest>>

\* The stream is exhausted: the node gets its content and is added (lines
\* 267-270).
EndOfStream ==
    /\ phase = "reader"
    /\ Len(pipe.content) = Len(pipe.chunks)
    /\ Install(finish_file([s |-> [Self EXCEPT !.err = Ok],
                            content |-> pipe.content,
                            filesize |-> pipe.filesize],
                           new_node("stdin", "File", DefaultMeta)))
    /\ phase' = "backup"
    /\ UNCHANGED <<index, snap, run, stdin, rooted, saved, nentries, stream,
                   replay, pipe, force, rest>>

NextPar ==
    \/ TakeChunk
    \/ \E i \in 1..MaxChunks : HashChunk(i)
    \/ ConsumeChunk
    \/ EndOfStream

SpecPar == InitPar /\ [][NextPar]_vars

----------------------------------------------------------------------------
(* Runs in which calls fail and the clock may go back *)

\* The calls of the archiver on the packers, the indexer and the backend
\* that may return an error.
Calls == {"data_packer.add", "tree_packer.add", "data_packer.finalize",
          "tree_packer.finalize", "indexer.finalize", "save_file"}

\* The number of calls that fail in one run.
MaxFaults == 1

InitErr ==
    /\ path = <<>>
    /\ tree = <<>>
    /\ parent = NoParent
    /\ stack = <<>>
    /\ index = [data |-> {}, tree |-> {}]
    /\ data_packer = {}
    /\ tree_packer = {}
    /\ summary = SummaryDefault
    /\ snap = SnapDefault
    /\ log = <<>>
    /\ err = Ok
    /\ phase = "backup"
    /\ run = 1
    /\ stdin \in BOOLEAN
    /\ rooted = FALSE
    /\ saved = <<>>
    /\ nentries = 0
    /\ stream = <<>>
    /\ replay = FALSE
    /\ pipe = <<>>
    /\ fault = {}
    /\ force = FALSE
    /\ rest = <<>>

\* The entries of a walk that finds every mtime 0 and no empty file.
PlainEntries ==
    {e \in Entries : e.node.meta.mtime = 0
                     /\ (e.node.type = "File" => e.file.chunks # <<>>)}

AddPlainEntry ==
    /\ phase = "backup"
    /\ ~stdin
    /\ nentries < MaxEntries
    /\ \E e \in PlainEntries : Deliver(e)

\* The next call of this kind is going to fail.
SetToFail(call) ==
    /\ phase = "backup"
    /\ call \notin fault
    /\ Cardinality(fault)
          + Cardinality({i \in 1..Len(log) : log[i][1] = "failed"}) < MaxFaults
    /\ fault' = fault \cup {call}
    /\ UNCHANGED <<path, tree, parent, stack, index, data_packer, tree_packer,
                   summary, snap, log, err, phase, run, stdin, rooted, saved,
                   nentries, stream, replay, pipe, force, rest>>

\* The command finishes, whatever the clock shows.
FinalizeAnyTime == \E now \in Clock : FinalizeAt(now)

NextErr ==
    \/ AddPlainEntry
    \/ BackupStdin
    \/ FinalizeAnyTime
    \/ \E call \in Calls : SetToFail(call)

SpecErr == InitErr /\ [][NextErr]_vars

----------------------------------------------------------------------------
(* The REST backend: one operation under backoff::retry_notify.            *)
(* rest = [op, backoff, elapsed, attempts, last, result]                   *)

\* max_elapsed_time of the backoff RestBackend::new builds, in seconds.
DefaultMaxElapsed == 600

RestOps == {"list_config", "list", "read_full", "read_partial", "create",
            "write_bytes", "remove"}

\* What a request may meet: a response with a status of the class, one with
\* status 2xx and a body that cannot be decoded, or a network error.
Responses == {"2xx", "4xx", "5xx", "garbled", "net"}

\* The waits next_backoff may hand out, in seconds.
Waits == {30, 60}

\* CheckError::check_error, lines 20-32.
check_error(resp) ==
    CASE resp = "4xx" -> "Permanent"
      [] resp = "5xx" -> "Transient"
      [] OTHER -> "Ok"

\* The closure an operation hands to retry_notify: `?` on send() and on the
\* decoding of the body turns a reqwest::Error into Error::Transient; the
\* Config case of list_with_size (lines 125-137) only asks is_success.
request(op, resp) ==
    IF resp = "net" THEN "Transient"
    ELSE IF op = "list_config" THEN "Ok"
    ELSE IF check_error(resp) # "Ok" THEN check_error(resp)
    ELSE IF resp = "garbled" /\ op \in {"list", "read_full", "read_partial"}
         THEN "Transient"
         ELSE "Ok"

\* MaybeBackoff::next_backoff, lines 37-41, over ExponentialBackoff: no wait
\* without a backoff or when wait does not fit into max_elapsed_time.
next_backoff(b, elapsed, wait) ==
    IF b = <<>> THEN <<>>
    ELSE IF elapsed + wait <= b[1] THEN <<wait>> ELSE <<>>

\* backoff::retry_notify after one run of the closure.
retry_notify(r, resp, out, next) ==
    [r EXCEPT
       !.attempts = @ + 1,
       !.last = resp,
       !.elapsed = IF out = "Transient" /\ next # <<>> THEN @ + next[1] ELSE @,
       !.result = CASE out = "Ok" -> "ok"
                    [] out = "Permanent" -> "err"
                    [] OTHER -> IF next = <<>> THEN "err" ELSE "pending"]

InitRest ==
    /\ path = <<>>
    /\ tree = <<>>
    /\ parent = NoParent
    /\ stack = <<>>
    /\ index = [data |-> {}, tree |-> {}]
    /\ data_packer = {}
    /\ tree_packer = {}
    /\ summary = SummaryDefault
    /\ snap = SnapDefault
    /\ log = <<>>
    /\ err = Ok
    /\ phase = "rest"
    /\ run = 1
    /\ stdin = FALSE
    /\ rooted = FALSE
    /\ saved = <<>>
    /\ nentries = 0
    /\ stream = <<>>
    /\ replay = FALSE
    /\ pipe = <<>>
    /\ fault = {}
    /\ force = FALSE
    /\ \E op \in RestOps :
          rest = [op |-> op, backoff |-> <<DefaultMaxElapsed>>, elapsed |-> 0,
                  attempts |-> 0, last |-> "", result |-> "pending"]

\* The closure runs once more and retry_notify decides what follows.
RestAttempt ==
    /\ phase = "rest"
    /\ rest.result = "pending"
    /\ \E resp \in Responses, wait \in Waits :
          rest' = retry_notify(rest, resp, request(rest.op, resp),
                               next_backoff(rest.backoff, rest.elapsed, wait))
    /\ UNCHANGED <<path, tree, parent, stack, index, data_packer, tree_packer,
                   summary, snap, log, err, phase, run, stdin, rooted, saved,
                   nentries, stream, replay, pipe, fault, force>>

NextRest == RestAttempt

SpecRest == InitRest /\ [][NextRest]_vars

----------------------------------------------------------------------------
(* The REST backend with its retry option set between operations *)

\* max_elapsed_time after set_option("retry", "true"), in seconds.
RetryMaxElapsed == 120

\* The operations and the set_option calls of one scenario.
MaxOps == 2

MaxSets == 2

Options == {"retry", "other"}

Values == {"true", "false", "maybe"}

\* RestBackend::set_option, lines 102-119; asked and set keep the call and
\* its result.
set_option(r, option, value) ==
    IF option = "retry"
    THEN CASE value = "true" ->
                [r EXCEPT !.backoff = <<RetryMaxElapsed>>, !.set = "ok",
                          !.asked = <<option, value>>, !.sets = @ + 1]
           [] value = "false" ->
                [r EXCEPT !.backoff = <<>>, !.set = "ok",
                          !.asked = <<option, value>>, !.sets = @ + 1]
           [] OTHER ->
                [r EXCEPT !.set = "err",
                          !.asked = <<option, value>>, !.sets = @ + 1]
    ELSE [r EXCEPT !.set = "ok", !.asked = <<option, value>>, !.sets = @ + 1]

\* An operation that goes on with the time the operation before it spent.
start_op_shared(r, op) ==
    [r EXCEPT !.op = op, !.clone = r.backoff, !.attempts = 0, !.last = "",
              !.result = "pending", !.ops = @ + 1]

\* The start of an operation (e.g. read_full, lines 165-166):
\* retry_notify(self.backoff.clone(), ..) works on a copy of the configured
\* backoff and resets it before the first attempt.
start_op(r, op) ==
    [r EXCEPT !.op = op, !.clone = r.backoff, !.elapsed = 0, !.attempts = 0,
              !.last = "", !.result = "pending", !.ops = @ + 1]

InitSwitch ==
    /\ path = <<>>
    /\ tree = <<>>
    /\ parent = NoParent
    /\ stack = <<>>
    /\ index = [data |-> {}, tree |-> {}]
    /\ data_packer = {}
    /\ tree_packer = {}
    /\ summary = SummaryDefault
    /\ snap = SnapDefault
    /\ log = <<>>
    /\ err = Ok
    /\ phase = "rest"
    /\ run = 1
    /\ stdin = FALSE
    /\ rooted = FALSE
    /\ saved = <<>>
    /\ nentries = 0
    /\ stream = <<>>
    /\ replay = FALSE
    /\ pipe = <<>>
    /\ fault = {}
    /\ force = FALSE
    /\ rest = [op |-> "", backoff |-> <<DefaultMaxElapsed>>,
               clone |-> <<>>, elapsed |-> 0, attempts |-> 0, last |-> "",
               result |-> "idle", set |-> "", asked |-> <<>>, sets |-> 0,
               ops |-> 0]

\* set_option takes &mut self: no operation is under way.
SetOption ==
    /\ phase = "rest"
    /\ rest.result # "pending"
    /\ rest.sets < MaxSets
    /\ \E option \in Options, value \in Values :
          rest' = set_option(rest, option, value)
    /\ UNCHANGED <<path, tree, parent, stack, index, data_packer, tree_packer,
                   summary, snap, log, err, phase, run, stdin, rooted, saved,
                   nentries, stream, replay, pipe, fault, force>>

StartOp ==
    /\ phase = "rest"
    /\ rest.result # "pending"
    /\ rest.ops < MaxOps
    /\ \E op \in RestOps : rest' = start_op(rest, op)
    /\ UNCHANGED <<path, tree, parent, stack, index, data_packer, tree_packer,
                   summary, snap, log, err, phase, run, stdin, rooted, saved,
                   nentries, stream, replay, pipe, fault, force>>

\* The closure runs once more, with the copy of the backoff the operation
\* started with.
OpAttempt ==
    /\ phase = "rest"
    /\ rest.result = "pending"
    /\ \E resp \in Responses, wait \in Waits :
          rest' = retry_notify(rest, resp, request(rest.op, resp),
                               next_backoff(rest.clone, rest.elapsed, wait))
    /\ UNCHANGED <<path, tree, parent, stack, index, data_packer, tree_packer,
                   summary, snap, log, err, phase, run, stdin, rooted, saved,
                   nentries, stream, replay, pipe, fault, force>>

NextSwitch == SetOption \/ StartOp \/ OpAttempt

SpecSwitch == InitSwitch /\ [][NextSwitch]_vars

----------------------------------------------------------------------------
(* Reading the history *)

Events(kind) == {i \in 1..Len(log) : log[i][1] = kind}

\* The bytes behind a list of chunk ids.
RECURSIVE ContentBytes(_)
ContentBytes(ids) ==
    IF ids = <<>> THEN 0
    ELSE data_len(Head(ids)[2]) + ContentBytes(Tail(ids))

\* f[1] + ... + f[n]
RECURSIVE SumTo(_, _)
SumTo(f, n) == IF n = 0 THEN 0 ELSE f[n] + SumTo(f, n - 1)

\* The root tree of the parent snapshot this run compares against, if any.
ParentRoot ==
    IF run = 2 /\ ~stdin THEN <<from_backend(saved[1].tree)>> ELSE <<>>

\* The first child called name in an optional tree, if any.
ChildNamed(t, name) ==
    IF t = <<>> \/ \A i \in 1..Len(t[1]) : t[1][i].name # name THEN <<>>
    ELSE <<t[1][CHOOSE i \in 1..Len(t[1]) :
                   /\ t[1][i].name = name
                   /\ \A j \in 1..(i - 1) : t[1][j].name # name]>>

\* The parent snapshot's tree of directory dir (normal components), if any.
RECURSIVE ParentTreeAt(_, _)
ParentTreeAt(t, dir) ==
    IF dir = <<>> THEN t
    ELSE LET c == ChildNamed(t, Head(dir))
         IN IF c = <<>> \/ c[1].type # "Dir" THEN <<>>
            ELSE ParentTreeAt(<<from_backend(c[1].subtree)>>, Tail(dir))

\* What the parent snapshot holds for node in directory dir.
ParentChild(dir, node) ==
    ChildNamed(ParentTreeAt(ParentRoot, SelectSeq(dir, IsNormal)), node.name)

\* How node in directory dir compares with the parent snapshot.
Expected(dir, node) ==
    LET c == ParentChild(dir, node)
    IN IF c = <<>> THEN "NotFound"
       ELSE IF c[1].type = node.type /\ c[1].meta = node.meta
            THEN "Matched" ELSE "NotMatched"

KnownData == index.data \cup data_packer

KnownTrees == index.tree \cup tree_packer

\* The ids of the trees and of the chunks reachable from tree id.
RECURSIVE ReachTrees(_)
ReachTrees(id) ==
    {id} \cup UNION {ReachTrees(from_backend(id)[i].subtree) :
                       i \in {k \in 1..Len(from_backend(id)) :
                                from_backend(id)[k].type = "Dir"}}

ReachData(id) ==
    UNION {{n.content[i] : i \in 1..Len(n.content)} :
             n \in UNION {{from_backend(tid)[k] : k \in 1..Len(from_backend(tid))} :
                            tid \in ReachTrees(id)}}

\* C1. Referential closure: when a tree is serialized, every chunk id and
\* every subtree id of its nodes is in the index or was handed to the data
\* resp. tree packer before; and every id reachable from the root tree of a
\* saved snapshot is in the index or was handed to its packer in this run.
C1_ReferentialClosure ==
    /\ \A i \in Events("serialize") :
          \A k \in 1..Len(from_backend(log[i][3])) :
             LET n == from_backend(log[i][3])[k]
             IN /\ \A c \in 1..Len(n.content) :
                      \/ has_data(n.content[c])
                      \/ \E j \in 1..(i - 1) :
                            log[j][1] = "data_add" /\ log[j][2] = n.content[c]
                /\ n.type = "Dir" =>
                      \/ has_tree(n.subtree)
                      \/ \E j \in 1..(i - 1) :
                            log[j][1] = "tree_add" /\ log[j][2] = n.subtree
    /\ phase = "saved" =>
          /\ snap.tree = Last(saved).tree
          /\ ReachTrees(snap.tree) \subseteq KnownTrees
          /\ ReachData(snap.tree) \subseteq KnownData

\* A second run saved a snapshot that holds an unchanged directory and a file
\* whose content was reused from the parent.
C1_Witness ==
    /\ phase = "saved"
    /\ run = 2
    /\ summary.dirs_unmodified > 0
    /\ Events("reuse") # {}
    /\ ReachData(snap.tree) # {}

\* C2. Ordering between directories: once a directory is entered, no
\* directory above it (the root included) is serialized before the entered
\* one was serialized and handed to backup_tree with that id.
C2_ChildBeforeParent ==
    \A j \in Events("push") :
       \A i \in Events("serialize") :
          (j < i /\ Len(log[i][2]) < Len(log[j][2])
                 /\ IsPrefix(log[i][2], log[j][2])) =>
             \E k \in (j + 1)..(i - 1) :
                /\ log[k][1] = "serialize"
                /\ log[k][2] = log[j][2]
                /\ \E l \in (k + 1)..(i - 1) :
                      /\ log[l][1] = "backup_tree"
                      /\ log[l][2] = log[j][2]
                      /\ log[l][3] = log[k][3]

\* add_entry unwound a/b and then a to deliver an entry of the root, and
\* finalize_snapshot unwound what was left.
C2_Witness ==
    /\ phase = "saved"
    /\ \E i \in Events("serialize") :
          /\ Len(log[i][2]) = 2
          /\ \E j \in Events("serialize") :
                /\ i < j
                /\ Len(log[j][2]) = 1
                /\ \E k \in Events("add_file") :
                      /\ j < k
                      /\ log[k][2] = <<>>
                      /\ \E l \in Events("serialize") :
                            k < l /\ Len(log[l][2]) = 1

\* The nodes added to directory dir by the events k..(i - 1).
RECURSIVE KidsFrom(_, _, _)
KidsFrom(k, i, dir) ==
    IF k >= i THEN <<>>
    ELSE (IF \/ log[k][1] = "add_file" /\ log[k][2] = dir
             \/ /\ log[k][1] = "add_dir"
                /\ Len(log[k][2]) = Len(dir) + 1
                /\ Front(log[k][2]) = dir
          THEN <<log[k][3]>> ELSE <<>>) \o KidsFrom(k + 1, i, dir)

\* The event that entered the directory which event i finishes.
PushOf(i) ==
    CHOOSE j \in Events("push") :
       /\ j < i
       /\ log[j][2] = log[i][2]
       /\ \A k \in Events("push") :
             (k < i /\ log[k][2] = log[i][2]) => k <= j

AllTrees == {tree} \cup {stack[k].tree : k \in 1..Len(stack)}

\* C3. The subtree id of every directory node placed in a tree is the id of
\* the serialization of exactly the nodes added while that directory was the
\* current one.
C3_SubtreeIsSerializedChildren ==
    /\ \A i \in Events("add_dir") :
          /\ \E j \in Events("push") : j < i /\ log[j][2] = log[i][2]
          /\ log[i][3].subtree =
                serialize(KidsFrom(PushOf(i) + 1, i, log[i][2])).id
    /\ \A t \in AllTrees :
          \A k \in 1..Len(t) :
             t[k].type = "Dir" =>
                \E i \in Events("add_dir") : log[i][3] = t[k]

\* A directory holding a file and a directory was placed in its parent.
C3_Witness ==
    \E i \in Events("add_dir") :
       /\ Len(from_backend(log[i][3].subtree)) = 2
       /\ \E k \in 1..2 : from_backend(log[i][3].subtree)[k].type = "Dir"

Count(S) == Cardinality(S)

\* C4. File classification: the counters files_unmodified, files_changed and
\* files_new count the files added whose path the parent snapshot holds
\* with the same kind and metadata, holds otherwise, or does not hold;
\* total_files_processed counts them all and total_bytes_processed adds up
\* their sizes; a matched file that was read again counts as unmodified.
C4_FileClassification ==
    LET files == Events("add_file")
        class(i) == Expected(log[i][2], log[i][3])
    IN /\ summary.files_unmodified =
             Count({i \in files : class(i) = "Matched"})
       /\ summary.files_changed =
             Count({i \in files : class(i) = "NotMatched"})
       /\ summary.files_new = Count({i \in files : class(i) = "NotFound"})
       /\ summary.total_files_processed = Count(files)
       /\ \A i \in files : log[i][5] = ContentBytes(log[i][3].content)
       /\ summary.total_bytes_processed =
             SumTo([i \in 1..Len(log) |->
                      IF i \in files THEN ContentBytes(log[i][3].content)
                      ELSE 0], Len(log))

\* A second run added a changed file and a matched file that it had to read
\* again because the index had lost a blob of the parent's content.
C4_Witness ==
    /\ summary.files_changed > 0
    /\ summary.files_unmodified > 0
    /\ \E i \in Events("open") :
          /\ i + 1 \in Events("chunk")
          /\ \E k \in Events("add_file") :
                /\ i < k
                /\ log[k][3].name = Last(log[i][2])
                /\ Expected(log[k][2], log[k][3]) = "Matched"
                /\ log[k][5] > 0

\* The event that started the handling of the file added by event k: the
\* last "reuse" or "open" before it.
StartOf(k) ==
    CHOOSE j \in Events("reuse") \cup Events("open") :
       /\ j < k
       /\ \A l \in (j + 1)..(k - 1) : log[l][1] \in {"chunk", "data_add"}

\* The parent snapshot holds the file of event k unchanged and the index has
\* every chunk of the content recorded there.
Reusable(k) ==
    /\ Expected(log[k][2], log[k][3]) = "Matched"
    /\ LET p == ParentChild(log[k][2], log[k][3])[1]
       IN \A c \in 1..Len(p.content) : has_data(p.content[c])

\* C5. backup_file takes the content from the parent, opening no file and
\* calling no packer, exactly when the parent cursor matches the file and the
\* index has every id of the parent's content; in every other case it opens
\* the file and streams it.
C5_ReuseIffMatchedAndIndexed ==
    stdin \/
    \A k \in Events("add_file") :
       log[k][3].type = "File" =>
          /\ \E j \in Events("reuse") \cup Events("open") :
                /\ j < k
                /\ \A l \in (j + 1)..(k - 1) :
                      log[l][1] \in {"chunk", "data_add"}
          /\ log[StartOf(k)][1] = "reuse" <=> Reusable(k)
          /\ log[StartOf(k)][1] = "reuse" =>
                /\ StartOf(k) = k - 1
                /\ log[k][3].content =
                      ParentChild(log[k][2], log[k][3])[1].content

\* A second run reused the content of one file and opened and read a file
\* that it could not take from the parent.
C5_Witness ==
    /\ \E k \in Events("add_file") :
          /\ log[k][3].type = "File"
          /\ Reusable(k)
          /\ log[k][3].content # <<>>
          /\ log[k - 1][1] = "reuse"
    /\ \E k \in Events("add_file") :
          /\ log[k][3].type = "File"
          /\ ~Reusable(k)
          /\ log[StartOf(k)][1] = "open"

\* The ids of the "chunk" events among the events j..(k - 1), in order.
RECURSIVE ChunkIds(_, _)
ChunkIds(j, k) ==
    IF j >= k THEN <<>>
    ELSE (IF log[j][1] = "chunk" THEN <<log[j][2]>> ELSE <<>>)
         \o ChunkIds(j + 1, k)

\* The data-packer calls that returned a packed size.
DataPacked == {i \in Events("data_add") : log[i][3] # 0}

\* The tree-packer calls of backup_tree that returned a packed size.
TreePacked == {i \in Events("tree_add") : log[i][3] # 0}

Added(S, raw(_)) ==
    SumTo([i \in 1..Len(log) |-> IF i \in S THEN raw(i) ELSE 0], Len(log))

DataRaw(i) == data_len(log[i][2][2])

TreeRaw(i) == tree_len(log[i][2][2])

Packed(i) == log[i][3]

\* C6. backup_reader: the id of every chunk read is appended to the content
\* of the file, in order; a chunk goes to the data packer exactly when the
\* index does not have its id; the data counters of the summary count the
\* packer calls that returned a non-zero size, and nothing else.
C6_ReaderDedup ==
    /\ \A i \in Events("chunk") :
          ~has_data(log[i][2]) <=>
             /\ i + 1 \in Events("data_add")
             /\ log[i + 1][2] = log[i][2]
    /\ \A i \in Events("data_add") :
          /\ i - 1 \in Events("chunk")
          /\ log[i - 1][2] = log[i][2]
          /\ ~has_data(log[i][2])
    /\ \A k \in Events("add_file") :
          \/ (k > 1 /\ log[k - 1][1] = "reuse")
          \/ log[k][3].content =
                ChunkIds(IF stdin THEN 1 ELSE
                         IF log[k][3].type = "File" THEN StartOf(k) ELSE k, k)
    /\ summary.data_blobs = Count(DataPacked)
    /\ summary.data_added_files = Added(DataPacked, DataRaw)
    /\ summary.data_added_files_packed = Added(DataPacked, Packed)
    /\ summary.data_added =
          Added(DataPacked, DataRaw) + Added(TreePacked, TreeRaw)
    /\ summary.data_added_packed =
          Added(DataPacked, Packed) + Added(TreePacked, Packed)

\* A file was read whose chunks were: one the index had, one new to the
\* packer, and one the packer had been given before (it returned 0).
C6_Witness ==
    /\ \E i \in Events("chunk") : has_data(log[i][2])
    /\ \E i \in Events("data_add") : log[i][3] # 0
    /\ \E i \in Events("data_add") : log[i][3] = 0

\* The directory placed by event i is unchanged: the parent snapshot holds
\* it with the same metadata and the same subtree id.
Unchanged(i) ==
    /\ Expected(Front(log[i][2]), log[i][3]) = "Matched"
    /\ ParentChild(Front(log[i][2]), log[i][3])[1].subtree = log[i][3].subtree

\* C8. backup_tree: every popped directory is handed to backup_tree once and
\* then added to the enclosing tree once; an unchanged directory counts as
\* dirs_unmodified and is not packed; any other counts as dirs_new when the
\* parent snapshot does not hold it and as dirs_changed when it does, and goes
\* to the tree packer exactly when the index does not have its id; the tree
\* counters of the summary count the packer calls that returned a non-zero
\* size, and nothing else.
C8_BackupTreeRule ==
    LET dirs == Events("add_dir")
    IN /\ \A i \in Events("backup_tree") :
             /\ i > 1 /\ log[i - 1][1] = "serialize"
             /\ log[i - 1][2] = log[i][2] /\ log[i - 1][3] = log[i][3]
             /\ \E k \in {i + 1, i + 2} :
                   /\ k \in dirs
                   /\ log[k][2] = log[i][2]
                   /\ log[k][3].subtree = log[i][3]
                   /\ IF Unchanged(k) \/ has_tree(log[i][3])
                      THEN k = i + 1
                      ELSE /\ k = i + 2
                           /\ log[i + 1][1] = "tree_add"
                           /\ log[i + 1][2] = log[i][3]
       /\ \A k \in dirs :
             \E i \in {k - 1, k - 2} : i \in Events("backup_tree")
       /\ \A i \in Events("tree_add") : i - 1 \in Events("backup_tree")
       /\ summary.dirs_unmodified = Count({k \in dirs : Unchanged(k)})
       /\ summary.dirs_new =
             Count({k \in dirs :
                      /\ ~Unchanged(k)
                      /\ Expected(Front(log[k][2]), log[k][3]) = "NotFound"})
       /\ summary.dirs_changed =
             Count({k \in dirs :
                      /\ ~Unchanged(k)
                      /\ Expected(Front(log[k][2]), log[k][3]) # "NotFound"})
       /\ summary.tree_blobs = Count(TreePacked)
       /\ summary.data_added_trees = Added(TreePacked, TreeRaw)
       /\ summary.data_added_trees_packed = Added(TreePacked, Packed)
       /\ summary.data_added =
             Added(DataPacked, DataRaw) + Added(TreePacked, TreeRaw)
       /\ summary.data_added_packed =
             Added(DataPacked, Packed) + Added(TreePacked, Packed)

\* A second run placed an unchanged directory and a directory that the
\* parent holds with another subtree, which it packed.
C8_Witness ==
    /\ summary.dirs_unmodified > 0
    /\ \E k \in Events("add_dir") :
          /\ Expected(Front(log[k][2]), log[k][3]) = "Matched"
          /\ ~Unchanged(k)
          /\ log[k - 1][1] = "tree_add"
          /\ log[k - 1][3] # 0

\* The chunk ids of the file that a step read, given that the step read one.
NewChunks ==
    {log'[i][2] : i \in {j \in (Len(log) + 1)..Len(log') : log'[j][1] = "chunk"}}

\* The first data-packer call for each id.
FirstAdds ==
    {i \in Events("data_add") :
       \A j \in Events("data_add") : j < i => log[j][2] # log[i][2]}

\* C10. Dedup within a run: a chunk whose id the data packer was given
\* earlier in the run (by another file or by the same one) adds nothing: the
\* data counters count the first call for each id only; and handling a file
\* whose chunk ids were all given to the data packer before, or are in the
\* index, changes none of data_blobs, data_added_files and
\* data_added_files_packed, and changes data_added and data_added_packed by
\* no more than the trees packed in the same step.
C10_DuplicateAddsNothing ==
    /\ [](/\ summary.data_blobs = Count(FirstAdds)
          /\ summary.data_added_files = Added(FirstAdds, DataRaw)
          /\ summary.data_added_files_packed = Added(FirstAdds, Packed))
    /\ [][(/\ Len(log') > Len(log)
           /\ SubSeq(log', 1, Len(log)) = log
           /\ NewChunks # {}
           /\ NewChunks \subseteq KnownData) =>
             /\ summary'.data_blobs = summary.data_blobs
             /\ summary'.data_added_files = summary.data_added_files
             /\ summary'.data_added_files_packed =
                   summary.data_added_files_packed
             /\ summary'.data_added - summary.data_added =
                   summary'.data_added_trees - summary.data_added_trees
             /\ summary'.data_added_packed - summary.data_added_packed =
                   summary'.data_added_trees_packed
                      - summary.data_added_trees_packed]_vars

\* A file was opened and read all of whose chunks the data packer had been
\* given by an earlier file: every call for it returned 0.
C10_Witness ==
    /\ ~stdin
    /\ \E k \in Events("add_file") :
          /\ log[k][3].type = "File"
          /\ log[k - 1][1] = "data_add"
          /\ \A j \in StartOf(k)..(k - 1) :
                log[j][1] = "data_add" => log[j][3] = 0

\* The ids handed to the data packer, in the order of the calls.
Submitted ==
    [i \in 1..Len(SelectSeq(log, LAMBDA e : e[1] = "data_add")) |->
        SelectSeq(log, LAMBDA e : e[1] = "data_add")[i][2]]

\* C7. Ordered results under parallel hashing: however the threads
\* interleave, the ids appended to the content of the file are the hashes of
\* the chunks in the order the chunker emitted them, and the chunks reach
\* the data packer in that order.
C7_ContentInStreamOrder ==
    /\ Len(pipe.content) <= Len(pipe.chunks)
    /\ \A i \in 1..Len(pipe.content) : pipe.content[i] = hash(pipe.chunks[i])
    /\ ChunkIds(1, Len(log) + 1) = pipe.content
    /\ Submitted = SelectSeq(pipe.content, LAMBDA id : ~has_data(id))
    /\ \A k \in Events("add_file") :
          /\ Len(log[k][3].content) = Len(pipe.chunks)
          /\ \A i \in 1..Len(pipe.chunks) :
                log[k][3].content[i] = hash(pipe.chunks[i])

\* A later chunk was hashed before an earlier one, and the file was added
\* with its content in the order of the stream all the same.
C7_Witness ==
    /\ run = 1 /\ stdin /\ phase = "backup"
    /\ pipe.overtook
    /\ Len(Submitted) > 1
    /\ \E k \in Events("add_file") : Len(log[k][3].content) = Len(pipe.chunks)

\* C9. Idempotence: a second run over the same preorder walk of the unchanged
\* source, with the snapshot of the first run as parent and everything the
\* first run packed in the index, finds nothing new or changed, packs
\* nothing and saves a snapshot with the root tree of the first.
C9_Idempotence ==
    (replay /\ run = 2 /\ phase = "saved") =>
       /\ summary.files_new = 0
       /\ summary.files_changed = 0
       /\ summary.dirs_new = 0
       /\ summary.dirs_changed = 0
       /\ summary.data_blobs = 0
       /\ summary.tree_blobs = 0
       /\ summary.data_added_packed = 0
       /\ snap.tree = saved[1].tree
       /\ Events("tree_add") \cup Events("data_add") \cup Events("root_add")
             = {}
       /\ summary.files_unmodified = saved[1].summary.total_files_processed
       /\ summary.dirs_unmodified = saved[1].summary.total_dirs_processed

\* The second run over a walk that met a file below two directories and
\* another entry has saved its snapshot.
C9_Witness ==
    /\ replay /\ run = 2 /\ phase = "saved"
    /\ summary.files_unmodified > 0
    /\ summary.dirs_unmodified > 1
    /\ Len(stream) > 1
    /\ snap.parent = saved[1].id

\* C16. No parent: in a run with force set or reading stdin, the snapshot
\* names no parent and no cursor holds a tree, so every file is counted
\* files_new and every directory dirs_new, and files_changed,
\* files_unmodified, dirs_changed and dirs_unmodified stay 0.
C16_NoParentUsed ==
    (force \/ stdin) =>
       /\ snap.parent = NoId
       /\ parent = NoParent
       /\ \A i \in 1..Len(stack) : stack[i].parent = NoParent
       /\ \A i \in 1..Len(saved) : saved[i].parent = NoId
       /\ \A k \in Events("add_file") : log[k][4] = "NotFound"
       /\ \A k \in Events("backup_tree") : log[k][4] = "NotFound"
       /\ summary.files_changed = 0
       /\ summary.files_unmodified = 0
       /\ summary.dirs_changed = 0
       /\ summary.dirs_unmodified = 0
       /\ summary.files_new = summary.total_files_processed
       /\ summary.dirs_new = summary.total_dirs_processed

\* A forced second run over a source has saved the tree the first run saved,
\* with every file and directory in it counted new.
C16_Witness ==
    /\ force /\ ~stdin /\ run = 2 /\ phase = "saved"
    /\ Len(saved) = 2
    /\ saved[2].tree = saved[1].tree
    /\ summary.files_new > 0
    /\ summary.dirs_new > 0

\* The calls on the packers that failed in this run.
PackerFailures ==
    {i \in Events("failed") :
        log[i][2] \in {"data_packer.add", "tree_packer.add",
                       "data_packer.finalize", "tree_packer.finalize"}}

\* C11. A failure of a packer is fatal: once data_packer.add,
\* tree_packer.add or the finalize of a packer has failed in a run, the run
\* persists no snapshot manifest.
C11_PackerFailureFatal ==
    PackerFailures # {} => (Events("save_file") = {} /\ saved = <<>>)

\* C12. Commit fence: the manifest is saved only by finalize_snapshot, at
\* most once, as its last step, after the root tree was serialized and
\* stamped into snap.tree and data_packer.finalize, tree_packer.finalize and
\* indexer.finalize returned Ok in this order; a run that has not reached
\* finalize_snapshot, or in which one of these steps failed, has saved no
\* manifest; the snapshot returned carries the id save_file returned.
C12_CommitFence ==
    /\ Cardinality(Events("save_file")) <= 1
    /\ (phase = "saved") <=> (Events("save_file") # {})
    /\ Len(saved) = (IF phase = "saved" THEN run ELSE run - 1)
    /\ phase = "backup" =>
          Events("data_packer.finalize") \cup Events("tree_packer.finalize")
             \cup Events("indexer.finalize") = {}
    /\ \A f \in Events("failed") :
          log[f][2] \in {"data_packer.finalize", "tree_packer.finalize",
                         "indexer.finalize", "save_file"} =>
             Events("save_file") = {}
    /\ \A k \in Events("save_file") :
          /\ k = Len(log)
          /\ err = Ok
          /\ log[k][2] = snap.id
          /\ Last(saved) = snap
          /\ snap.tree = serialize(tree).id
          /\ stack = <<>>
          /\ k > 5
          /\ log[k - 1][1] = "end_time"
          /\ log[k - 2] = <<"indexer.finalize">>
          /\ log[k - 3] = <<"tree_packer.finalize">>
          /\ log[k - 4] = <<"data_packer.finalize">>
          /\ \E r \in {k - 6, k - 5} \cap 1..k :
                /\ log[r][1] = "serialize" /\ log[r][3] = snap.tree
                /\ r = k - 6 => log[k - 5][1] = "root_add"

\* Blobs were packed and the data packer was finalized, then
\* tree_packer.finalize failed and the command ended without a manifest.
C12_Witness ==
    /\ phase = "failed"
    /\ data_packer # {} /\ tree_packer # {}
    /\ Events("data_packer.finalize") # {}
    /\ \E f \in Events("failed") : log[f][2] = "tree_packer.finalize"
    /\ saved = <<>>

\* C15. Clock skew: when the end time finalize_snapshot reads is earlier
\* than backup_start or than snap.time (and no call fails after it), the
\* duration concerned is reported as zero and the manifest is persisted.
C15_SkewReportedAsZero ==
    \A k \in Events("end_time") :
       (/\ log[k][2] < summary.backup_start \/ log[k][2] < snap.time
        /\ \A f \in Events("failed") : f < k) =>
          /\ phase = "saved"
          /\ log[k][2] < summary.backup_start => summary.backup_duration = 0
          /\ log[k][2] < snap.time => summary.total_duration = 0

\* C13. Index visibility: once the packers' finalize has returned in
\* finalize_snapshot, every blob a packer accepted during the run is
\* answered true by the index view of the archiver (has_data for the data
\* packer, has_tree for the tree packer).
C13_IndexVisibility ==
    phase = "saved" =>
       /\ \A id \in data_packer : has_data(id)
       /\ \A id \in tree_packer : has_tree(id)

\* C14. REST retry policy: in every operation of the REST backend, the
\* Config case of list_with_size included, an attempt that met a 5xx
\* response or a network error is followed by another one unless the maximum
\* elapsed time is exhausted, and an attempt that met a 4xx response ends
\* the operation with an error.
C14_RestRetryPolicy ==
    /\ rest.last = "4xx" => rest.result = "err"
    /\ rest.last \in {"5xx", "net"} =>
          \/ rest.result = "pending"
          \/ /\ rest.result = "err"
             /\ \E w \in Waits : rest.elapsed + w > DefaultMaxElapsed

\* The latest event of a kind.
LastEvent(kind) ==
    CHOOSE i \in Events(kind) : \A j \in Events(kind) : j <= i

\* The add_entry call that event i belongs to.
EntryOf(i) ==
    CHOOSE j \in Events("add_entry") :
       j < i /\ \A m \in Events("add_entry") : m < i => m <= j

\* basepath of the add_entry call that begins at event j
\* (archiver_impl.rs:114-119).
BaseOf(j) ==
    IF log[j][3].type = "Dir" THEN log[j][2] ELSE path_parent(log[j][2])[1]

\* The Normal components add_entry call j had to enter after unwind event i.
MissingDirs(j, i) ==
    SelectSeq(SubSeq(BaseOf(j), Len(log[i][2]) + 1, Len(BaseOf(j))), IsNormal)

\* The frame on top of the stack is that of the directory node call j
\* delivered: it holds the tree and the cursor that were current before the
\* push, the current tree is fresh and the cursor is the node's.
DeliveredFrame(j, i) ==
    /\ stack # <<>>
    /\ Last(stack).node = log[j][3]
    /\ tree = <<>>
    /\ parent = sub_parent(Last(stack).parent, log[j][3])
    /\ IF Len(MissingDirs(j, i)) = 1
       THEN /\ Last(stack).tree = log[i][3]
            /\ Last(stack).parent = log[i][4]
       ELSE /\ Len(stack) >= 2
            /\ Last(stack).tree = <<>>
            /\ Last(stack).parent =
                  sub_parent(stack[Len(stack) - 1].parent,
                             stack[Len(stack) - 1].node)

\* C17. Unwind and descend postcondition: after the unwind step of
\* add_entry the current path is a prefix of base; after add_entry returned
\* Ok the current path equals base (the snapshot path for a directory node,
\* its parent otherwise); and a directory node delivered for a path the
\* descent reaches is pushed as a frame together with the previous tree and
\* parent cursor, the current tree becoming a fresh empty tree.
C17_UnwindDescend ==
    /\ \A i \in Events("unwound") : IsPrefix(log[i][2], BaseOf(EntryOf(i)))
    /\ (phase = "backup" /\ err = Ok /\ Events("add_entry") # {}) =>
          /\ Events("unwound") # {}
          /\ LastEvent("add_entry") < LastEvent("unwound")
          /\ path = BaseOf(LastEvent("add_entry"))
          /\ (/\ log[LastEvent("add_entry")][3].type = "Dir"
              /\ MissingDirs(LastEvent("add_entry"),
                             LastEvent("unwound")) # <<>>) =>
                DeliveredFrame(LastEvent("add_entry"), LastEvent("unwound"))

\* A directory was delivered under an absolute backup path after the unwind
\* had left other directories, and its frame keeps a tree that is not empty.
C17_Witness ==
    /\ phase = "backup" /\ err = Ok /\ rooted
    /\ Events("add_entry") # {} /\ Events("unwound") # {}
    /\ log[LastEvent("add_entry")][3].type = "Dir"
    /\ \E k \in Events("backup_tree") :
          LastEvent("add_entry") < k /\ k < LastEvent("unwound")
    /\ stack # <<>>
    /\ Last(stack).node = log[LastEvent("add_entry")][3]
    /\ Last(stack).tree # <<>>

\* The directory entered at push event p was not delivered: the call it
\* belongs to delivered no directory node for that path.
Synthetic(p) ==
    ~(/\ log[EntryOf(p)][3].type = "Dir"
      /\ log[EntryOf(p)][2] = log[p][2])

\* The paths add_entry call j had to enter after unwind event i.
MissingPaths(j, i) ==
    {SubSeq(BaseOf(j), 1, m) : m \in {n \in (Len(log[i][2]) + 1)..Len(BaseOf(j)) :
                                        IsNormal(BaseOf(j)[n])}}

\* The latest push event for a path.
LastPushAt(dir) ==
    CHOOSE p \in Events("push") :
       /\ log[p][2] = dir
       /\ \A q \in Events("push") : log[q][2] = dir => q <= p

\* The path of the directory of frame k of the stack.
FramePath(k) ==
    SubSeq(path, 1, Len(path) - Len(SelectSeq(path, IsNormal)) + k)

\* C18. Synthetic intermediate directories: add_entry pushes one frame for
\* every Normal component of base below the current path; the frame of a
\* component whose directory node was not delivered holds a default directory
\* node named after the component, and the cursor becomes the child cursor of
\* that node; such a directory is serialized from a fresh tree, classified
\* against the parent snapshot and counted like a delivered one; and the node
\* of an open directory stays the one pushed, whatever directory node is
\* delivered for its path afterwards.
C18_SyntheticDirs ==
    /\ \A i \in Events("unwound") :
          /\ {log[p][2] : p \in {q \in Events("push") :
                                    q > i /\ EntryOf(q) = EntryOf(i)}}
                = MissingPaths(EntryOf(i), i)
          /\ Count({q \in Events("push") : q > i /\ EntryOf(q) = EntryOf(i)})
                = Len(MissingDirs(EntryOf(i), i))
    /\ \A p \in Events("push") :
          log[p][3] = IF Synthetic(p)
                      THEN new_node(Last(log[p][2]), "Dir", DefaultMeta)
                      ELSE log[EntryOf(p)][3]
    /\ Len(stack) = Len(SelectSeq(path, IsNormal))
    /\ \A k \in 1..Len(stack) :
          /\ \E p \in Events("push") : log[p][2] = FramePath(k)
          /\ stack[k].node = log[LastPushAt(FramePath(k))][3]
          /\ (IF k = Len(stack) THEN parent ELSE stack[k + 1].parent)
                = sub_parent(stack[k].parent, stack[k].node)
    /\ \A i \in Events("add_dir") :
          /\ \E p \in Events("push") : p < i /\ log[p][2] = log[i][2]
          /\ log[i][3] =
                set_subtree(log[PushOf(i)][3],
                            serialize(KidsFrom(PushOf(i) + 1, i,
                                               log[i][2])).id)
          /\ \E b \in {i - 1, i - 2} \cap Events("backup_tree") :
                log[b][4] = Expected(Front(log[i][2]), log[i][3])
    /\ summary.total_dirs_processed = Count(Events("add_dir"))
    /\ summary.dirs_new + summary.dirs_changed + summary.dirs_unmodified
          = Count(Events("add_dir"))

\* A directory that was entered without its node was placed in its parent
\* with default metadata, although a node with another mtime was delivered
\* for its path while it was open.
C18_Witness ==
    \E i \in Events("add_dir") :
       /\ Synthetic(PushOf(i))
       /\ log[i][3].meta = DefaultMeta
       /\ \E j \in Events("add_entry") :
             /\ PushOf(i) < j /\ j < i
             /\ log[j][2] = log[i][2]
             /\ log[j][3].type = "Dir"
             /\ log[j][3].meta # DefaultMeta

\* The nodes of the snapshot below tree t, each with its path from prefix.
RECURSIVE Placed(_, _)
Placed(t, prefix) ==
    UNION {{<<Append(prefix, t[k].name), t[k]>>} \cup
           (IF t[k].type = "Dir"
            THEN Placed(from_backend(t[k].subtree), Append(prefix, t[k].name))
            ELSE {}) : k \in 1..Len(t)}

\* The paths of the entries of the walk and of the directories above them.
WalkedPaths ==
    UNION {{SubSeq(stream[i].rel, 1, n) : n \in 1..Len(stream[i].rel)} :
             i \in 1..Len(stream)}

\* The node the snapshot must hold at path p: that of the entry delivered
\* for p (kind and metadata), or a default directory.
Walked(p, n) ==
    /\ n.name = Last(p)
    /\ IF \E i \in 1..Len(stream) : stream[i].rel = p
       THEN \E i \in 1..Len(stream) :
               /\ stream[i].rel = p
               /\ n.type = stream[i].node.type
               /\ n.meta = stream[i].node.meta
       ELSE n.type = "Dir" /\ n.meta = DefaultMeta

\* C19. Tree shape mirrors the path hierarchy: after finalize_snapshot of a
\* run over a preorder stream of entries with distinct paths, the nodes of
\* the snapshot are, path by path, the entries delivered and the directories
\* above them, each in the tree of the directory its path names as parent;
\* the root tree holds exactly the top-level components, no tree holds two
\* children of one name, and dirs_new + dirs_changed + dirs_unmodified is the
\* number of directories entered.
C19_TreeShape ==
    phase = "saved" =>
       /\ {pn[1] : pn \in Placed(from_backend(snap.tree), <<>>)} = WalkedPaths
       /\ \A pn \in Placed(from_backend(snap.tree), <<>>) :
             Walked(pn[1], pn[2])
       /\ {from_backend(snap.tree)[k].name :
              k \in 1..Len(from_backend(snap.tree))}
             = {stream[i].rel[1] : i \in 1..Len(stream)}
       /\ \A tid \in ReachTrees(snap.tree) :
             \A i, k \in 1..Len(from_backend(tid)) :
                i # k => from_backend(tid)[i].name # from_backend(tid)[k].name
       /\ summary.dirs_new + summary.dirs_changed + summary.dirs_unmodified
             = Count(Events("push"))
       /\ Count(Events("push"))
             = Count({p \in WalkedPaths :
                        \E pn \in Placed(from_backend(snap.tree), <<>>) :
                           pn[1] = p /\ pn[2].type = "Dir"})

\* The first run saved a snapshot of a walk that met a file below two
\* directories and a second entry in the outer one: two new directories,
\* the outer one holding two children.
C19_Witness ==
    /\ phase = "saved" /\ run = 1 /\ replay
    /\ summary.dirs_new = 2
    /\ \E i \in 1..Len(stream) : Len(stream[i].rel) = 3
    /\ \E pn \in Placed(from_backend(snap.tree), <<>>) :
          /\ pn[2].type = "Dir"
          /\ Len(pn[1]) = 1
          /\ Len(from_backend(pn[2].subtree)) = 2

\* Paths finish_trees may be asked to unwind to, relative and absolute,
\* inside and outside the source.
Targets ==
    {<<>>, <<RootDir>>, <<"a">>, <<"a", "b">>, <<"h">>, <<"x", "y">>,
     <<RootDir, "a">>, <<RootDir, "a", "b", "f">>, <<RootDir, "h">>}

\* r is what finish_trees(target) made of the current state: it popped the
\* innermost frames one per iteration until target starts with the path, or
\* it ran out of frames and failed.
Unwound(r, target) ==
    /\ r.stack = SubSeq(stack, 1, Len(r.stack))
    /\ Count({i \in (Len(log) + 1)..Len(r.log) : r.log[i][1] = "serialize"})
          = Len(stack) - Len(r.stack) + (IF r.err = Ok THEN 0 ELSE 1)
    /\ \/ /\ r.err = Ok
          /\ starts_with(target, r.path)
          /\ IsPrefix(r.path, path)
          /\ Len(path) - Len(r.path) = Len(stack) - Len(r.stack)
          /\ \A n \in (Len(r.path) + 1)..Len(path) :
                ~starts_with(target, SubSeq(path, 1, n))
       \/ /\ r.err = "tree stack empty??"
          /\ r.stack = <<>>
          /\ ~starts_with(target, r.path)

\* The k-th directory, counted from the innermost, that was open when
\* finalize_snapshot began at event f.
OpenDir(f, k) == SubSeq(log[f][2], 1, Len(log[f][2]) - k + 1)

\* C20. finalize_snapshot drains the stack: from every state reached by
\* successful add_entry calls over relative or absolute paths, the unwind
\* against "/" succeeds, pops every frame that was on the stack exactly once,
\* the innermost first, and leaves the stack empty with the current tree the
\* root tree of the snapshot; and finish_trees ends for every target path,
\* each iteration popping one frame or failing on the empty stack.
C20_FinalizeDrains ==
    /\ phase # "failed"
    /\ \A target \in Targets :
          Unwound(finish_trees([Self EXCEPT !.err = Ok], target), target)
    /\ phase = "saved" =>
          /\ stack = <<>>
          /\ path = IF rooted /\ Events("add_entry") # {}
                    THEN <<RootDir>> ELSE <<>>
          /\ snap.tree = serialize(tree).id
          /\ Count(Events("finalize_snapshot")) = 1
          /\ \A f \in Events("finalize_snapshot") :
                /\ log[f][3] = Len(SelectSeq(log[f][2], IsNormal))
                /\ Count({i \in Events("add_dir") : i > f}) = log[f][3]
                /\ \A k \in 1..log[f][3] :
                      /\ Count({i \in Events("add_dir") :
                                  i > f /\ log[i][2] = OpenDir(f, k)}) = 1
                      /\ \A i \in Events("add_dir") :
                            (i > f /\ log[i][2] = OpenDir(f, k)) =>
                               /\ set_subtree(log[i][3], NoId)
                                     = log[LastPushAt(OpenDir(f, k))][3]
                               /\ \A m \in Events("add_dir") :
                                     (m > f /\ Len(log[m][2]) > Len(log[i][2]))
                                        => m < i
                /\ \E r \in Events("serialize") :
                      /\ r > f
                      /\ log[r][3] = snap.tree
                      /\ log[r][2] = path
                      /\ \A i \in Events("add_dir") : i < r

\* A run over an absolute backup path was finalized with two directories
\* open, and its snapshot is saved.
C20_Witness ==
    /\ phase = "saved" /\ rooted
    /\ stack = <<>>
    /\ \E f \in Events("finalize_snapshot") :
          /\ log[f][3] = 2
          /\ Count({i \in Events("add_dir") : i > f}) = 2

\* The step is an add_entry call for a node that is neither File nor Dir.
OtherKindStep ==
    /\ Len(log') > Len(log)
    /\ SubSeq(log', 1, Len(log)) = log
    /\ log'[Len(log) + 1][1] = "add_entry"
    /\ log'[Len(log) + 1][3].type \notin {"File", "Dir"}

\* The file counter that counts a node compared as res with the parent.
FileCounter(sm, res) ==
    CASE res = "Matched" -> sm.files_unmodified
      [] res = "NotMatched" -> sm.files_changed
      [] OTHER -> sm.files_new

\* C21. An entry that is neither File nor Dir is added to the current tree
\* as a zero-size entry: no file is opened, no chunk is read or handed to
\* the data packer, total_bytes_processed stays, total_files_processed grows
\* by 1, and exactly one of files_new, files_changed and files_unmodified
\* grows by 1, the one the parent cursor gives.
C21_OtherKinds ==
    [][OtherKindStep =>
          /\ err' = Ok
          /\ Last(log') = <<"add_file", path', log'[Len(log) + 1][3],
                            Expected(path', log'[Len(log) + 1][3]), 0>>
          /\ \A i \in (Len(log) + 1)..Len(log') :
                log'[i][1] \notin {"open", "reuse", "chunk", "data_add"}
          /\ Count({i \in (Len(log) + 1)..Len(log') :
                      log'[i][1] = "add_file"}) = 1
          /\ data_packer' = data_packer
          /\ \E k \in 1..Len(tree') : tree'[k] = log'[Len(log) + 1][3]
          /\ summary'.total_bytes_processed = summary.total_bytes_processed
          /\ summary'.total_files_processed
                = summary.total_files_processed + 1
          /\ summary'.files_new + summary'.files_changed
                + summary'.files_unmodified
                = summary.files_new + summary.files_changed
                  + summary.files_unmodified + 1
          /\ FileCounter(summary', Expected(path', log'[Len(log) + 1][3]))
                = FileCounter(summary, Expected(path', log'[Len(log) + 1][3]))
                  + 1]_vars

\* A second run added a symlink that the parent snapshot holds unchanged,
\* after files with content had been added.
C21_Witness ==
    /\ run = 2 /\ log # <<>>
    /\ Last(log)[1] = "add_file"
    /\ Last(log)[3].type = "Symlink"
    /\ Last(log)[4] = "Matched"
    /\ summary.files_unmodified = 1
    /\ summary.total_bytes_processed > 0

\* The step is an add_entry call that failed to open or to read its file.
ReadFailStep ==
    /\ Len(log') > Len(log)
    /\ SubSeq(log', 1, Len(log)) = log
    /\ log'[Len(log) + 1][1] = "add_entry"
    /\ err' \in {"open failed", "read error"}

\* The chunk events among the events i..Len(h) of history h, in order.
RECURSIVE ChunksFrom(_, _)
ChunksFrom(h, i) ==
    IF i > Len(h) THEN <<>>
    ELSE (IF h[i][1] = "chunk" THEN <<h[i][2]>> ELSE <<>>)
         \o ChunksFrom(h, i + 1)

\* The ids of the chunks of file f read before its failed element.
ReadBefore(f) ==
    IF ~f.exists THEN <<>>
    ELSE [i \in 1..(f.bad - 1) |-> hash(f.chunks[i])]

\* C22. Mid-file read failure: when the file cannot be opened or the chunker
\* yields a failed element, add_entry returns the error and the file is
\* abandoned at the first failure: only the chunks before the failed element
\* were handed on, the file node is added to no tree, and files_new,
\* files_changed, files_unmodified, total_files_processed and
\* total_bytes_processed are unchanged; the caller goes on with the next
\* entry and finalize_snapshot still saves the snapshot.
C22_ReadFailure ==
    /\ [](phase # "failed")
    /\ [][ReadFailStep =>
            /\ ~Last(stream').file.exists \/ Last(stream').file.bad > 0
            /\ ChunksFrom(log', Len(log) + 1) = ReadBefore(Last(stream').file)
            /\ data_packer' \subseteq
                  data_packer \cup
                  {ReadBefore(Last(stream').file)[i] :
                     i \in 1..Len(ReadBefore(Last(stream').file))}
            /\ \A i \in (Len(log) + 1)..Len(log') : log'[i][1] # "add_file"
            /\ \A t \in {tree'} \cup {stack'[k].tree : k \in 1..Len(stack')} :
                  \A k \in 1..Len(t) :
                     t[k].type = "File" =>
                        \E i \in 1..Len(log) :
                           log[i][1] = "add_file" /\ log[i][3] = t[k]
            /\ summary'.files_new = summary.files_new
            /\ summary'.files_changed = summary.files_changed
            /\ summary'.files_unmodified = summary.files_unmodified
            /\ summary'.total_files_processed
                  = summary.total_files_processed
            /\ summary'.total_bytes_processed
                  = summary.total_bytes_processed
            /\ phase' = "backup"]_vars

\* A file was abandoned after its first chunk, a later file was added, and
\* the snapshot is saved.
C22_Witness ==
    /\ phase = "saved"
    /\ \E c \in Events("data_add") :
          /\ c < Len(log)
          /\ log[c - 1][1] = "chunk"
          /\ log[c + 1] = <<"ignoring error", "read error">>
          /\ \E k \in Events("add_file") : k > c

\* The errors of add_entry that show a broken invariant.
InvariantErrors ==
    {"tree stack empty??", "path should not contain current or parent dir"}

\* The add_entry calls that the source loop saw fail on a broken invariant.
InvariantFailures ==
    {i \in Events("ignoring error") : log[i][2] \in InvariantErrors}

\* add_entry call j, which unwound at event i, returned err.
Returned(i, e) ==
    \E k \in Events("ignoring error") :
       /\ k > i
       /\ log[k][2] = e
       /\ \A m \in Events("add_entry") : m < i \/ m > k

\* add_entry returns an error when the unwind finds the stack empty and when
\* a component to descend into is not Normal.
InvariantErrorsReturned ==
    /\ \A j \in Events("add_entry") :
          (\A i \in Events("unwound") : EntryOf(i) # j) =>
             \E k \in Events("ignoring error") :
                /\ k > j
                /\ log[k][2] = "tree stack empty??"
                /\ \A m \in Events("add_entry") : m <= j \/ m > k
    /\ \A i \in Events("unwound") :
          (\E n \in (Len(log[i][2]) + 1)..Len(BaseOf(EntryOf(i))) :
              BaseOf(EntryOf(i))[n] \in {".", ".."}) =>
             Returned(i, "path should not contain current or parent dir")

\* C23. Invariant errors: add_entry fails when the unwind needs to pop a
\* frame from an empty stack and when a component of base to descend into is
\* not a Normal component; and such an error is fatal to the run: no further
\* entry is processed and no manifest is written.
C23_InvariantErrorsFatal ==
    /\ InvariantErrorsReturned
    /\ \A i \in InvariantFailures :
          /\ \A j \in Events("add_entry") : j < i
          /\ Events("save_file") = {}
          /\ phase # "saved"

\* The Normal components of the current path.
NormalPath == SelectSeq(path, IsNormal)

\* C24. Stack/path invariant: as long as every add_entry call returned Ok,
\* the stack has as many frames as the current path has Normal components
\* (the root component has no frame), and the frame at depth k holds the
\* directory node named by the k-th Normal component.
C24_StackMatchesPath ==
    Events("ignoring error") = {} =>
       /\ Len(stack) = Len(NormalPath)
       /\ \A k \in 1..Len(stack) :
             /\ stack[k].node.type = "Dir"
             /\ stack[k].node.name = NormalPath[k]

\* Under an absolute backup path two directories are open after another
\* directory was left.
C24_Witness ==
    /\ rooted /\ phase = "backup"
    /\ Events("ignoring error") = {}
    /\ Events("backup_tree") # {}
    /\ path = <<RootDir, "a", "b">>
    /\ Len(stack) = 2

\* C25. State consistency after a failed add_entry: when add_entry has
\* returned an error, the stack depth still equals the number of Normal
\* components of the current path and no frame is lost (the frame at depth k
\* is that of the k-th Normal component), so that the calls that follow keep
\* this shape and finalize_snapshot goes through as if the failed entry had
\* not been delivered.
C25_ConsistentAfterFailure ==
    Events("ignoring error") # {} =>
       /\ Len(stack) = Len(NormalPath)
       /\ \A k \in 1..Len(stack) : stack[k].node.name = NormalPath[k]
       /\ phase # "failed"

\* The counters of the summary.
Counters ==
    {"files_new", "files_changed", "files_unmodified", "dirs_new",
     "dirs_changed", "dirs_unmodified", "data_blobs", "tree_blobs",
     "data_added", "data_added_packed", "data_added_files",
     "data_added_files_packed", "data_added_trees",
     "data_added_trees_packed", "total_files_processed",
     "total_dirs_processed", "total_bytes_processed",
     "total_dirsize_processed"}

\* C26. Counter sums: in every reachable state files_new + files_changed +
\* files_unmodified = total_files_processed and dirs_new + dirs_changed +
\* dirs_unmodified = total_dirs_processed, and no counter of a run ever
\* decreases.
C26_CounterSums ==
    /\ [](/\ summary.files_new + summary.files_changed
              + summary.files_unmodified = summary.total_files_processed
          /\ summary.dirs_new + summary.dirs_changed
              + summary.dirs_unmodified = summary.total_dirs_processed)
    /\ [][run' = run =>
            \A c \in Counters : summary'[c] >= summary[c]]_vars

\* C27. Added-bytes additivity: in every reachable state data_added =
\* data_added_files + data_added_trees and data_added_packed =
\* data_added_files_packed + data_added_trees_packed; data_blobs is the
\* number of data packer add calls that returned non-zero, and tree_blobs the
\* number of such tree packer add calls made from backup_tree.
C27_AddedBytes ==
    /\ summary.data_added
          = summary.data_added_files + summary.data_added_trees
    /\ summary.data_added_packed
          = summary.data_added_files_packed + summary.data_added_trees_packed
    /\ summary.data_blobs
          = Count({i \in Events("data_add") : log[i][3] # 0})
    /\ summary.tree_blobs
          = Count({i \in Events("tree_add") : log[i][3] # 0})

\* Both packers were given a blob they took and a blob they already had.
C27_Witness ==
    /\ summary.data_added_files > 0
    /\ summary.data_added_trees > 0
    /\ \E i \in Events("data_add") : log[i][3] = 0
    /\ \E i \in Events("tree_add") : log[i][3] = 0

\* The sizes (raw or packed) of the trees that backup_tree got packed in the
\* events i..Len(h) of history h, summed up.
RECURSIVE TreesPacked(_, _, _)
TreesPacked(h, i, raw) ==
    IF i > Len(h) THEN 0
    ELSE (IF h[i][1] = "tree_add" /\ h[i][3] # 0
          THEN (IF raw THEN tree_len(h[i][2][2]) ELSE h[i][3])
          ELSE 0) + TreesPacked(h, i + 1, raw)

\* The root tree's serialization in history h.
RootSerialize(h) ==
    CHOOSE r \in 1..Len(h) :
       /\ h[r][1] = "serialize"
       /\ \A k \in (r + 1)..Len(h) : h[k][1] # "serialize"

\* C28. Root tree accounting: finalize_snapshot hands the root tree to the
\* tree packer exactly when the index does not have its id, and this changes
\* no counter: tree_blobs, data_added, data_added_packed, data_added_trees,
\* data_added_trees_packed, the three directory counters and
\* total_dirs_processed change only by what the directories closed by the
\* unwind add, and not at all when no directory was open.
C28_RootTreeAccounting ==
    [][(phase = "backup" /\ phase' = "saved") =>
          /\ log'[RootSerialize(log')][3] = snap'.tree
          /\ IF has_tree(snap'.tree)
             THEN /\ \A i \in (Len(log) + 1)..Len(log') :
                        log'[i][1] # "root_add"
                  /\ tree_packer' \subseteq
                        tree_packer \cup
                        {log'[i][2] : i \in {k \in (Len(log) + 1)..Len(log') :
                                                log'[k][1] = "tree_add"}}
             ELSE /\ log'[RootSerialize(log') + 1][1] = "root_add"
                  /\ log'[RootSerialize(log') + 1][2] = snap'.tree
                  /\ snap'.tree \in tree_packer'
                  /\ Count({i \in (Len(log) + 1)..Len(log') :
                              log'[i][1] = "root_add"}) = 1
          /\ summary'.tree_blobs
                = summary.tree_blobs
                  + Count({i \in (Len(log) + 1)..Len(log') :
                             log'[i][1] = "tree_add" /\ log'[i][3] # 0})
          /\ summary'.data_added_trees
                = summary.data_added_trees
                  + TreesPacked(log', Len(log) + 1, TRUE)
          /\ summary'.data_added
                = summary.data_added + TreesPacked(log', Len(log) + 1, TRUE)
          /\ summary'.data_added_trees_packed
                = summary.data_added_trees_packed
                  + TreesPacked(log', Len(log) + 1, FALSE)
          /\ summary'.data_added_packed
                = summary.data_added_packed
                  + TreesPacked(log', Len(log) + 1, FALSE)
          /\ summary'.dirs_new + summary'.dirs_changed
                + summary'.dirs_unmodified
                = summary.dirs_new + summary.dirs_changed
                  + summary.dirs_unmodified + Len(stack)
          /\ summary'.total_dirs_processed
                = summary.total_dirs_processed + Len(stack)
          /\ stack = <<>> =>
                \A c \in Counters : summary'[c] = summary[c]]_vars

\* A run with no directory open at the end packed its root tree; and a
\* second run found its root tree in the index.
C28_Witness ==
    /\ run = 2 /\ phase = "saved"
    /\ has_tree(snap.tree)
    /\ Events("root_add") = {}
    /\ summary.total_files_processed > 0
    /\ \E f \in Events("finalize_snapshot") :
          log[f][3] = 0 /\ log[f + 1][1] = "serialize"

\* The step is an add_entry call for a directory node.
DirStep ==
    /\ Len(log') > Len(log)
    /\ SubSeq(log', 1, Len(log)) = log
    /\ log'[Len(log) + 1][1] = "add_entry"
    /\ log'[Len(log) + 1][3].type = "Dir"

\* u is the state the unwind to spath leaves: nothing of spath remains to
\* be entered (at most the root component).
NothingToEnter(u, spath) ==
    /\ u.err = Ok
    /\ SelectSeq(SubSeq(spath, Len(u.path) + 1, Len(spath)), IsNormal) = <<>>

\* The step left what the unwind u left, and logged nothing after it.
OnlyUnwound(u, spath) ==
    /\ err' = Ok
    /\ path' = spath
    /\ stack' = u.stack
    /\ tree' = u.tree
    /\ parent' = u.parent
    /\ summary' = u.summary
    /\ data_packer' = u.data_packer
    /\ tree_packer' = u.tree_packer
    /\ Len(log') = Len(u.log) + 2
    /\ Last(log')[1] = "unwound"

\* C29. A directory entry whose snapshot path is the current path after the
\* unwind (the directory delivered again, a directory entered before as a
\* synthetic one, or the root) is dropped: add_entry returns Ok, pushes no
\* frame, adds no node to any tree and changes no counter, so that the call
\* leaves exactly what its unwind leaves.
C29_DirAlreadyCurrent ==
    [][(/\ DirStep
        /\ NothingToEnter(finish_trees([Self EXCEPT !.err = Ok],
                                       log'[Len(log) + 1][2]),
                          log'[Len(log) + 1][2])) =>
          OnlyUnwound(finish_trees([Self EXCEPT !.err = Ok],
                                   log'[Len(log) + 1][2]),
                      log'[Len(log) + 1][2])]_vars

\* A directory node with another mtime was delivered for a directory that
\* is open with a synthetic node, after the unwind had closed a directory
\* below it; the frame still holds the synthetic node.
C29_Witness ==
    /\ phase = "backup" /\ err = Ok /\ log # <<>>
    /\ Last(log)[1] = "unwound"
    /\ log[LastEvent("add_entry")][3].type = "Dir"
    /\ log[LastEvent("add_entry")][3].meta # DefaultMeta
    /\ log[LastEvent("add_entry")][2] = path
    /\ stack # <<>>
    /\ Last(stack).node.meta = DefaultMeta
    /\ \E k \in Events("backup_tree") : k > LastEvent("add_entry")

\* The response of the last attempt was a transient failure for the
\* operation.
TransientLast ==
    rest.attempts > 0 /\ request(rest.op, rest.last) = "Transient"

\* C30. REST retry switch: after set_option("retry", "false") every
\* operation makes exactly one attempt and returns a transient failure at
\* once; after set_option("retry", "true") transient failures are retried
\* within 120 s of elapsed time; set_option("retry", v) with any other v
\* returns an error and leaves the retry configuration as it was; and every
\* operation starts from a fresh copy of the configured backoff, so that the
\* retries of one operation take nothing from the next.
C30_RetrySwitch ==
    /\ [](/\ rest.clone = <<>> =>
              /\ rest.attempts <= 1
              /\ rest.attempts = 1 => rest.result # "pending"
              /\ TransientLast => rest.result = "err"
          /\ (rest.clone # <<>> /\ TransientLast) =>
                /\ rest.elapsed <= rest.clone[1]
                /\ \/ rest.result = "pending"
                   \/ /\ rest.result = "err"
                      /\ \E w \in Waits : rest.elapsed + w > rest.clone[1]
          /\ rest.asked = <<"retry", "true">> =>
                rest.backoff = <<RetryMaxElapsed>> /\ rest.set = "ok"
          /\ rest.asked = <<"retry", "false">> =>
                rest.backoff = <<>> /\ rest.set = "ok"
          /\ rest.sets = 0 => rest.backoff = <<DefaultMaxElapsed>>)
    /\ [][/\ rest'.sets # rest.sets =>
              /\ (rest'.asked[1] = "retry"
                  /\ rest'.asked[2] \notin {"true", "false"}) =>
                    rest'.set = "err" /\ rest'.backoff = rest.backoff
              /\ rest'.asked[1] # "retry" =>
                    rest'.set = "ok" /\ rest'.backoff = rest.backoff
              /\ rest'.clone = rest.clone /\ rest'.result = rest.result
          /\ rest'.ops # rest.ops =>
              /\ rest'.clone = rest.backoff
              /\ rest'.elapsed = 0
              /\ rest'.attempts = 0
              /\ rest'.result = "pending"
          /\ rest'.sets = rest.sets => rest'.backoff = rest.backoff]_vars

\* With retries switched off, the second operation failed on its first
\* attempt, after the first operation had used up retries.
C30_Witness ==
    /\ rest.ops = 2
    /\ rest.asked = <<"retry", "false">>
    /\ rest.clone = <<>>
    /\ rest.attempts = 1
    /\ rest.last = "5xx"
    /\ rest.result = "err"

============================================================================
